---- MODULE Spec2Model ----
(***************************************************************************)
(* MockVendor: a registry that vends test doubles to concrete objects at   *)
(* construction time, keyed by the object's address.                       *)
(*                                                                         *)
(* The tree holds three revisions of MockVendor.h.  Each is modelled by    *)
(* its own set of actions and its own specification:                       *)
(*   Spec1  src/MockVendor/MockVendor.h          (sLastMockWasPopped,      *)
(*          BaseLink::linkRestoreMockIfPopped, move)                       *)
(*   Spec2  src/unnamed/part_001                 (mVendedMock, _mapMock,   *)
(*          BaseLink::vend / BaseLink::destroy)                            *)
(*   Spec3  src/include/MockVendor/MockVendor.h  (MockVendorData,          *)
(*          sInstanceCount, variadic BaseMockVendors)                      *)
(* The real classes are the chain ObjA <- ObjB <- ObjC of the tests: an    *)
(* object of class K is constructed by running the constructors of its     *)
(* bases and then its own, each calling vend(this) on its own registry,    *)
(* and is destroyed by running the destructors in the opposite order.      *)
(***************************************************************************)
EXTENDS Integers, Sequences, FiniteSets, TLC

VARIABLES
    objs,               \* address -> class of the live real object, or NoClass
    chain,              \* calls still to be made by the running ctor/dtor chain
    nextMock,           \* number of doubles the test has created so far
    scopes,             \* type -> live MockVendor instances (slots) of the type
    sMockMap,           \* type -> (address -> double)
    sInstance,          \* revisions 1, 2: type -> slot of sInstance, 0 = nullptr
    mMockList,          \* revisions 1, 2: type -> slot -> queue of doubles
    mStaticMock,        \* revisions 1, 2: type -> slot -> double
    mVendedMock,        \* revision 2: type -> slot -> double
    sLastMockWasPopped, \* revision 1: type -> BOOLEAN
    sBaseLinks,         \* revisions 1, 2: type -> list of linked base types
    sInstanceCount,     \* revision 3: type -> counter
    sMockList,          \* revision 3: type -> queue of doubles
    sStaticMock,        \* revision 3: type -> double
    qlog,               \* type -> doubles appended to the type's queue, in order
    vlog,               \* type -> doubles bound by the vends that took from the queue
    olog,               \* revisions 1, 2: class -> doubles bound to its objects, in order
    phase,              \* revisions 1, 2: type -> "queue", "vend" or "late"
    unbound,            \* revisions 1, 2: queued doubles no finished object was bound to
    made,               \* number of real objects constructed so far
    newed,              \* number of MockVendor instances constructed so far
    calls,              \* the direct calls of move, mock and setStaticMock made so far
    thr,                \* thread -> the operation it is in, and how far
    gMockVendorMutex,   \* the thread that holds the mutex, 0 = none
    lockCount,          \* how many times the holder has locked the recursive mutex
    frame,              \* thread -> the locals of the vend it is in
    leakReport,         \* the leak message under construction in a destructor
    linkHeap,           \* revision 1: the BaseLink objects, sBaseLinks and mNext as pointers
    reported            \* the failures reported by the last operation, in order

vars == <<objs, chain, nextMock, scopes, sMockMap, sInstance, mMockList,
          mStaticMock, mVendedMock, sLastMockWasPopped, sBaseLinks,
          sInstanceCount, sMockList, sStaticMock, qlog, vlog, olog, phase,
          unbound, made, newed, calls, thr, gMockVendorMutex, lockCount,
          frame, leakReport, linkHeap, reported>>

----------------------------------------------------------------------------
(* Bounds *)

MaxIds == 2
MaxMocks == 2
MaxScopes == 2
MaxObjects == 2
MaxVendors == 2
MaxCalls == 1
MaxThreads == 2
MaxOps == 1
MaxLinks == 2

(* Program constants *)

MAX_LEAKED_REFS == 15

----------------------------------------------------------------------------
(* The example classes and their mock vendors *)

\* The single-inheritance line ObjA <- ObjB <- ObjC.
Types == {"A", "B", "C"}

\* ObjE derives from ObjA and ObjD, ObjD has no base.
MultiTypes == {"A", "D", "E"}

\* Every class that has a registry.
Registries == Types \cup MultiTypes
NoClass == "none"
Ids == 1..MaxIds
Slots == 1..MaxScopes

\* The direct base classes of each real class, in declaration order.
RealBases(T) ==
    CASE T = "A" -> << >>
      [] T = "B" -> <<"A">>
      [] T = "C" -> <<"B">>
      [] T = "D" -> << >>
      [] T = "E" -> <<"A", "D">>

\* The registries whose vend runs while an object of class T is constructed,
\* in the order the constructors run (bases first).
RECURSIVE CtorChain(_)
CtorChain(T) ==
    LET bases == RealBases(T)
        F[i \in 0..Len(bases)] ==
            IF i = 0 THEN << >> ELSE F[i - 1] \o CtorChain(bases[i])
    IN  F[Len(bases)] \o <<T>>

Reverse(s) == [i \in 1..Len(s) |-> s[Len(s) + 1 - i]]

\* Destructors run in the opposite order.
DtorChain(T) == Reverse(CtorChain(T))

\* Revisions 1 and 2: the BaseLink objects declared by the mock headers.
DeclaredLinks(T) ==
    CASE T = "A" -> << >>
      [] T = "B" -> <<"A">>
      [] T = "C" -> <<"B">>
      [] T = "D" -> << >>
      [] T = "E" -> << >>

\* Revision 3: the BaseMockVendors template arguments of each vendor alias.
BaseMockVendors(T) ==
    CASE T = "A" -> << >>
      [] T = "B" -> <<"A">>
      [] T = "C" -> <<"B">>
      [] T = "D" -> << >>
      [] T = "E" -> <<"A", "D">>

----------------------------------------------------------------------------
(* Doubles.  A double created by the test is a positive number that tells   *)
(* its mock class and its place in the order of creation (the test makes    *)
(* std::make_shared<ObjBMock>() and queues it on the vendor of ObjB); a      *)
(* default-behaviour double made by make_shared<NiceMock> is a negative     *)
(* number; Null is the empty shared_ptr.                                     *)

Null == 0
IsQueuedDouble(d) == d > 0
IsDefaultDouble(d) == d < 0

TypeIndex(T) == CASE T = "A" -> 1 [] T = "B" -> 2 [] T = "C" -> 3 [] T = "D" -> 4 [] T = "E" -> 5

\* The n-th double the test creates, of the mock class of T.
Mock(T, n) == 8 * n + TypeIndex(T)
MockClass(d) == CHOOSE T \in Registries : TypeIndex(T) = d % 8

Range(f) == {f[x] : x \in DOMAIN f}

\* std::map helpers.
EmptyMap == [x \in {} |-> Null]
Put(m, id, v) == [x \in (DOMAIN m) \cup {id} |-> IF x = id THEN v ELSE m[x]]
Erase(m, id) == [x \in (DOMAIN m) \ {id} |-> m[x]]

\* Every double something other than the map entry (T, id) refers to.
ReferencedBut(T, id) ==
    UNION {{sMockMap[X][i] : i \in (DOMAIN sMockMap[X]) \ (IF X = T THEN {id} ELSE {})} :
             X \in Registries}
    \cup UNION {Range(sMockList[X]) : X \in Registries}
    \cup {sStaticMock[X] : X \in Registries}
    \cup UNION {Range(mMockList[X][k]) : X \in Registries, k \in Slots}
    \cup {mStaticMock[X][k] : X \in Registries, k \in Slots}
    \cup {mVendedMock[X][k] : X \in Registries, k \in Slots}

\* make_shared<testing::NiceMock<MockType>>() in vend(ths) of registry T: an
\* object nothing refers to yet.  It is named after the place that makes it,
\* unless an earlier double made at that place is still referred to.
NiceMock(T, id) ==
    LET named == -(8 * id + TypeIndex(T))
        refs == ReferencedBut(T, id)
    IN  IF named \notin refs THEN named
        ELSE -(100 + CHOOSE k \in 1..(Cardinality(refs) + 1) :
                       /\ -(100 + k) \notin refs
                       /\ \A j \in 1..(k - 1) : -(100 + j) \in refs)

Op(o, T, id) == [op |-> o, type |-> T, id |-> id]

\* A call made by the test itself, outside constructors and destructors.
Direct(o, T, to, from) == [op |-> o, type |-> T, to |-> to, from |-> from]

Failure(k, T, n) ==
    [kind |-> k, type |-> T, remaining |-> n,
     listed |-> IF n < MAX_LEAKED_REFS THEN n ELSE MAX_LEAKED_REFS,
     more |-> n > MAX_LEAKED_REFS]

\* The threads of the test, and a thread that is in no operation after n
\* operations.
Threads == 1..MaxThreads
Idle(n) == [at |-> "idle", op |-> "none", type |-> NoClass, to |-> 0, from |-> 0, n |-> n]

\* A thread that is in no vend, and a destructor that is in no leak report.
NoFrame == [link |-> 0, popped |-> Null]
NoReport == [pc |-> "none", map |-> << >>, cnt |-> 0, ref |-> 0, str |-> << >>]

\* The addresses a BaseLink object can be constructed at, and the pointers
\* before any has been: sBaseLinks{ nullptr } of every vendor, mNext{ nullptr }
\* of every node, no object alive.
LinkNodes == 1..MaxLinks
NoLinkClass == [vendor |-> NoClass, base |-> NoClass]
NoLinks == [sBaseLinks |-> [T \in Types |-> Null],
            mNext |-> [n \in LinkNodes |-> Null],
            live |-> [n \in LinkNodes |-> NoLinkClass]]

InitWith(links) ==
    /\ objs = [i \in Ids |-> NoClass]
    /\ chain = << >>
    /\ nextMock = 0
    /\ scopes = [T \in Registries |-> {}]
    /\ sMockMap = [T \in Registries |-> EmptyMap]
    /\ sInstance = [T \in Registries |-> 0]
    /\ mMockList = [T \in Registries |-> [k \in Slots |-> << >>]]
    /\ mStaticMock = [T \in Registries |-> [k \in Slots |-> Null]]
    /\ mVendedMock = [T \in Registries |-> [k \in Slots |-> Null]]
    /\ sLastMockWasPopped = [T \in Registries |-> FALSE]
    /\ sBaseLinks = links
    /\ sInstanceCount = [T \in Registries |-> 0]
    /\ sMockList = [T \in Registries |-> << >>]
    /\ sStaticMock = [T \in Registries |-> Null]
    /\ qlog = [T \in Registries |-> << >>]
    /\ vlog = [T \in Registries |-> << >>]
    /\ olog = [T \in Registries |-> << >>]
    /\ phase = [T \in Registries |-> "queue"]
    /\ unbound = {}
    /\ made = 0
    /\ newed = 0
    /\ calls = << >>
    /\ thr = [t \in Threads |-> Idle(0)]
    /\ gMockVendorMutex = 0
    /\ lockCount = 0
    /\ frame = [t \in Threads |-> NoFrame]
    /\ leakReport = NoReport
    /\ linkHeap = NoLinks
    /\ reported = << >>

\* The state after static initialisation, the declared BaseLink objects
\* having registered themselves.
Init == InitWith([T \in Registries |-> DeclaredLinks(T)])

rev1Vars == <<sLastMockWasPopped>>
rev2Vars == <<mVendedMock>>
rev12Vars == <<sInstance, mMockList, mStaticMock, sBaseLinks>>
rev3Vars == <<sInstanceCount, sMockList, sStaticMock>>
thrVars == <<thr, gMockVendorMutex>>
stepVars == <<lockCount, frame, leakReport, linkHeap>>
monVars == <<olog, phase, unbound>>

\* Where the next real object is placed: the lowest free address (addresses
\* are interchangeable, so one choice of allocator stands for all).
FreeAddress ==
    IF \E i \in Ids : objs[i] = NoClass
    THEN CHOOSE i \in Ids : objs[i] = NoClass /\ \A j \in Ids : objs[j] = NoClass => i <= j
    ELSE 0

\* The smallest free slot: where the next MockVendor instance of T lives.
FreeSlot(T) == CHOOSE k \in Slots \ scopes[T] : \A j \in Slots \ scopes[T] : k <= j


----------------------------------------------------------------------------
(* Revision 3: src/include/MockVendor/MockVendor.h                          *)

\* A variant of VendorData without the listed bases.
VendorData_own(T) == <<T>>

\* The MockVendorData visited by _construct, _destruct and _queueMock of
\* MockVendor<Mock, Real, BaseMockVendors...>: its own, then one per listed
\* base vendor (Base::MockType, Base::RealType), the bases of a base not
\* being expanded.
VendorData(T) == <<T>> \o BaseMockVendors(T)

\* _construct<MVD>(): ++MVD::sInstanceCount, for each MVD in turn.  (The
\* uint32_t counter is decremented only by the destructor of an instance whose
\* constructor incremented it, and the model holds at most MaxScopes instances
\* per type, so it stays far from both ends of its range.)
RECURSIVE construct3(_, _)
construct3(cnt, ts) ==
    IF ts = << >> THEN cnt
    ELSE construct3([cnt EXCEPT ![Head(ts)] = @ + 1], Tail(ts))

\* _destruct<MVD>() on one MockVendorData X; st carries the static state and
\* the failures reported so far.
\* A variant of leakFailures that reports every leaked identity on its own.
leakFailures_each(X, map) ==
    [i \in 1..Cardinality(DOMAIN map) |-> Failure("leak", X, 1)]

\* A variant of leakFailures that counts the objects of the type itself only.
leakFailures_own(X, map) ==
    <<Failure("leak", X, Cardinality({i \in DOMAIN map : objs[i] = X}))>>

\* The ADD_FAILURE of the leak check: one message for the whole map.
leakFailures(X, map) == <<Failure("leak", X, Cardinality(DOMAIN map))>>

\* A variant of lastInstance3 that audits at every teardown.
lastInstance3_always(c) == TRUE

\* if (--MVD::sInstanceCount == 0), c being the decremented counter
lastInstance3(c) == c = 0

\* A variant of leaked3 that makes the leak check the else branch of the
\* under-consumption check.
leaked3_else(st, X) == st.list[X] = << >> /\ DOMAIN st.map[X] # {}

\* if (!MVD::sMockMap.empty())
leaked3(st, X) == DOMAIN st.map[X] # {}

destructData3(st, X) ==
    LET c == st.cnt[X] - 1
        unconsumed == st.list[X] # << >>
        leaked == leaked3(st, X)
        rep1 == IF unconsumed
                THEN Append(st.rep, Failure("unconsumed", X, 0))
                ELSE st.rep
        rep2 == IF leaked
                THEN rep1 \o leakFailures(X, st.map[X])
                ELSE rep1
    IN  IF lastInstance3(c)
        THEN [cnt |-> [st.cnt EXCEPT ![X] = c],
              map |-> IF leaked THEN [st.map EXCEPT ![X] = EmptyMap] ELSE st.map,
              list |-> IF leaked THEN [st.list EXCEPT ![X] = << >>] ELSE st.list,
              stat |-> IF leaked THEN [st.stat EXCEPT ![X] = Null] ELSE st.stat,
              rep |-> rep2]
        ELSE [st EXCEPT !.cnt[X] = c]

\* _destruct<M, R, Bases...>(): the MockVendorData one after the other.
RECURSIVE destruct3(_, _)
destruct3(st, ts) ==
    IF ts = << >> THEN st ELSE destruct3(destructData3(st, Head(ts)), Tail(ts))

\* _queueMock<M, R, Bases...>(mock): push_back on every listed MockVendorData.
RECURSIVE queueMockData3(_, _, _)
queueMockData3(list, ts, m) ==
    IF ts = << >> THEN list
    ELSE queueMockData3([list EXCEPT ![Head(ts)] = Append(@, m)], Tail(ts), m)

\* A variant of vended3 that takes the most recently queued double.
vended3_back(list, T, id) ==
    IF list # << >> THEN list[Len(list)] ELSE NiceMock(T, id)

\* A variant of vended3 that hands out a queued double it does not have.
vended3_nodefault(list, T, id) ==
    IF list # << >> THEN Head(list) ELSE 1

\* A variant of vended3 that leaves an identity that is bound with the double
\* it has.
vended3_bound(list, T, id) ==
    IF id \in DOMAIN sMockMap[T] THEN sMockMap[T][id]
    ELSE IF list # << >> THEN Head(list) ELSE NiceMock(T, id)

\* MockVendor::vend(ths): the double it binds, the front of the queue if there
\* is one, else a new NiceMock.
vended3(list, T, id) ==
    IF list # << >> THEN Head(list) ELSE NiceMock(T, id)

\* MockVendor::vend(ths)
vend3(T, id) ==
    /\ sMockMap' = [sMockMap EXCEPT ![T] = Put(@, id, vended3(sMockList[T], T, id))]
    /\ IF sMockList[T] # << >>
       THEN /\ sMockList' = [sMockList EXCEPT ![T] = Tail(@)]
            /\ vlog' = [vlog EXCEPT ![T] = Append(@, sMockMap'[T][id])]
       ELSE UNCHANGED <<sMockList, vlog>>
    /\ reported' = << >>
    /\ UNCHANGED <<nextMock, scopes, sInstanceCount, sStaticMock, qlog>>

\* A variant of erased3 that forgets to erase.
erased3_keep(map, id) == map

\* MockVendor::destroy(ths): the map without the entry of ths, if it has one.
erased3(map, id) == IF id \in DOMAIN map THEN Erase(map, id) ELSE map

\* MockVendor::destroy(ths)
destroy3(T, id) ==
    /\ sMockMap' = [sMockMap EXCEPT ![T] = erased3(@, id)]
    /\ reported' = << >>
    /\ UNCHANGED <<nextMock, scopes, sInstanceCount, sMockList, sStaticMock, qlog, vlog>>

\* MockVendor::MockVendor()
NewVendor3(T) ==
    /\ chain = << >>
    /\ scopes[T] # Slots
    /\ newed < MaxVendors
    /\ newed' = newed + 1
    /\ UNCHANGED made
    /\ scopes' = [scopes EXCEPT ![T] = @ \cup {FreeSlot(T)}]
    /\ sInstanceCount' = construct3(sInstanceCount, VendorData(T))
    /\ reported' = << >>
    /\ UNCHANGED <<objs, chain, nextMock, sMockMap, sMockList, sStaticMock, qlog, vlog>>
    /\ UNCHANGED <<thrVars, stepVars, rev1Vars, rev2Vars, rev12Vars, monVars, calls>>

\* MockVendor::~MockVendor()
DeleteVendor3(T, k) ==
    /\ chain = << >>
    /\ k \in scopes[T]
    /\ LET st == destruct3([cnt |-> sInstanceCount, map |-> sMockMap,
                            list |-> sMockList, stat |-> sStaticMock,
                            rep |-> << >>], VendorData(T))
       IN  /\ sInstanceCount' = st.cnt
           /\ sMockMap' = st.map
           /\ sMockList' = st.list
           /\ sStaticMock' = st.stat
           /\ reported' = st.rep
           /\ qlog' = [X \in Registries |-> IF st.list[X] = << >> THEN << >> ELSE qlog[X]]
           /\ vlog' = [X \in Registries |-> IF st.list[X] = << >> THEN << >> ELSE vlog[X]]
    /\ scopes' = [scopes EXCEPT ![T] = @ \ {k}]
    /\ UNCHANGED <<objs, chain, nextMock>>
    /\ UNCHANGED <<thrVars, stepVars, rev1Vars, rev2Vars, rev12Vars, monVars, calls>>
    /\ UNCHANGED <<made, newed>>

\* MockVendor::queueMock(mock), with a double the test has just created
QueueMock3(T) ==
    /\ chain = << >>
    /\ scopes[T] # {}
    /\ nextMock < MaxMocks
    /\ nextMock' = nextMock + 1
    /\ sMockList' = queueMockData3(sMockList, VendorData(T), Mock(T, nextMock + 1))
    /\ qlog' = [X \in Registries |->
                  qlog[X] \o SubSeq(sMockList'[X], Len(sMockList[X]) + 1, Len(sMockList'[X]))]
    /\ reported' = << >>
    /\ UNCHANGED <<objs, chain, scopes, sMockMap, sInstanceCount, sStaticMock, vlog>>
    /\ UNCHANGED <<made, newed>>
    /\ UNCHANGED <<thrVars, stepVars, rev1Vars, rev2Vars, rev12Vars, monVars, calls>>

\* MV::sStaticMock = staticMock with MV = MockVendor<M, R>: the member
\* staticMock() reads is MockVendorData<M, R>::sStaticMock, which this
\* statement does not name, so the data is as it was.
setStaticMockData3(stat, ts, m) == stat

\* setStaticMock(m) on a live scope of T, m being a double just made.
SetStaticMock3(T) ==
    /\ chain = << >>
    /\ scopes[T] # {}
    /\ nextMock < MaxMocks
    /\ Len(calls) < MaxCalls
    /\ nextMock' = nextMock + 1
    /\ calls' = Append(calls, Direct("setStaticMock", T, 0, 0))
    /\ sStaticMock' = setStaticMockData3(sStaticMock, <<T>>, Mock(T, nextMock + 1))
    /\ reported' = << >>
    /\ UNCHANGED <<objs, chain, scopes, sMockMap, sInstanceCount, sMockList, qlog, vlog>>
    /\ UNCHANGED <<made, newed>>
    /\ UNCHANGED <<thrVars, stepVars, rev1Vars, rev2Vars, rev12Vars, monVars>>

\* staticMock(): the static double, or a NiceMock made for the call.
staticMock3(stat, T) == IF stat[T] # Null THEN stat[T] ELSE NiceMock(T, 0)

\* A variant of mock3 that leaves an empty entry whatever the map held.
mock3_reset(map, id) == Put(map, id, Null)

\* MVD::sMockMap[ths]: operator[] inserts a null entry for a missing key.
mock3(map, id) == IF id \in DOMAIN map THEN map ELSE Put(map, id, Null)

\* mock(id) on the registry of T, called with any address.
Lookup3(T, id) ==
    /\ chain = << >>
    /\ Len(calls) < MaxCalls
    /\ calls' = Append(calls, Direct("mock", T, id, id))
    /\ sMockMap' = [sMockMap EXCEPT ![T] = mock3(@, id)]
    /\ reported' = << >>
    /\ UNCHANGED <<objs, chain, nextMock, scopes, sInstanceCount, sMockList, sStaticMock,
                   qlog, vlog>>
    /\ UNCHANGED <<made, newed>>
    /\ UNCHANGED <<thrVars, stepVars, rev1Vars, rev2Vars, rev12Vars, monVars>>

\* One call of a constructor or destructor body.
Call3(c) ==
    IF c.op = "vend" THEN vend3(c.type, c.id) ELSE destroy3(c.type, c.id)

Calls(o, ts, id) == [i \in 1..Len(ts) |-> Op(o, ts[i], id)]

\* new K at address id: the first constructor body of the chain runs.
Construct3(K, id) ==
    /\ chain = << >>
    /\ id = FreeAddress
    /\ made < MaxObjects
    /\ made' = made + 1
    /\ UNCHANGED newed
    /\ objs' = [objs EXCEPT ![id] = K]
    /\ Call3(Head(Calls("vend", CtorChain(K), id)))
    /\ chain' = Tail(Calls("vend", CtorChain(K), id))
    /\ UNCHANGED <<thrVars, stepVars, rev1Vars, rev2Vars, rev12Vars, monVars, calls>>

\* delete of the object at address id: the most derived destructor body runs.
Delete3(id) ==
    /\ chain = << >>
    /\ objs[id] # NoClass
    /\ objs' = [objs EXCEPT ![id] = NoClass]
    /\ Call3(Head(Calls("destroy", DtorChain(objs[id]), id)))
    /\ chain' = Tail(Calls("destroy", DtorChain(objs[id]), id))
    /\ UNCHANGED <<made, newed>>
    /\ UNCHANGED <<thrVars, stepVars, rev1Vars, rev2Vars, rev12Vars, monVars, calls>>

\* The next constructor or destructor body of the running chain.
Chain3 ==
    /\ chain # << >>
    /\ Call3(Head(chain))
    /\ chain' = Tail(chain)
    /\ UNCHANGED objs
    /\ UNCHANGED <<made, newed>>
    /\ UNCHANGED <<thrVars, stepVars, rev1Vars, rev2Vars, rev12Vars, monVars, calls>>

Next3 ==
    \/ \E T \in Types : NewVendor3(T)
    \/ \E T \in Types, k \in Slots : DeleteVendor3(T, k)
    \/ \E T \in Types : QueueMock3(T)
    \/ \E T \in Types : SetStaticMock3(T)
    \/ \E T \in Types, id \in Ids : Lookup3(T, id)
    \/ \E K \in Types, id \in Ids : Construct3(K, id)
    \/ \E id \in Ids : Delete3(id)
    \/ Chain3

Spec3 == Init /\ [][Next3]_vars

\* MockVendor::vend(ths) called by the test itself, with any address, bound
\* or not: vend is a public static member.
VendDirect3(T, id) ==
    /\ chain = << >>
    /\ Len(calls) < MaxCalls
    /\ calls' = Append(calls, Direct("vend", T, id, id))
    /\ vend3(T, id)
    /\ UNCHANGED <<objs, chain, made, newed>>
    /\ UNCHANGED <<thrVars, stepVars, rev1Vars, rev2Vars, rev12Vars, monVars>>

\* Scopes, queued doubles, objects and the direct calls of vend.
Next3V ==
    \/ \E T \in Types : NewVendor3(T)
    \/ \E T \in Types, k \in Slots : DeleteVendor3(T, k)
    \/ \E T \in Types : QueueMock3(T)
    \/ \E K \in Types, id \in Ids : Construct3(K, id)
    \/ \E id \in Ids : Delete3(id)
    \/ Chain3
    \/ \E T \in Types, id \in Ids : VendDirect3(T, id)

Spec3V == Init /\ [][Next3V]_vars

\* The same operations on the classes with several direct bases.
Next3M ==
    \/ \E T \in MultiTypes : NewVendor3(T)
    \/ \E T \in MultiTypes, k \in Slots : DeleteVendor3(T, k)
    \/ \E T \in MultiTypes : QueueMock3(T)
    \/ \E T \in MultiTypes : SetStaticMock3(T)
    \/ \E T \in MultiTypes, id \in Ids : Lookup3(T, id)
    \/ \E K \in MultiTypes, id \in Ids : Construct3(K, id)
    \/ \E id \in Ids : Delete3(id)
    \/ Chain3

Spec3M == Init /\ [][Next3M]_vars

----------------------------------------------------------------------------
(* Revisions 1 and 2: what the two have in common                           *)

\* sInstance->mMockList, or the empty list when sInstance is nullptr.
Queue(T) == IF sInstance[T] = 0 THEN << >> ELSE mMockList[T][sInstance[T]]

\* The two ADD_FAILUREs of ~MockVendor(), for the instance's list and the
\* type's map.
teardownFailures(T, list, map) ==
    (IF list # << >> THEN <<Failure("unconsumed", T, 0)>> ELSE << >>)
    \o (IF DOMAIN map # {} THEN <<Failure("leak", T, Cardinality(DOMAIN map))>> ELSE << >>)

\* A constructor or destructor chain has made the call c; last tells whether
\* it was the last call of the chain.  The object of class c.type is then
\* complete and the double its class is bound to is recorded.
Monitor(c, last) ==
    IF c.op = "vend" /\ last
    THEN /\ olog' = [olog EXCEPT ![c.type] = Append(@, sMockMap'[c.type][c.id])]
         /\ unbound' = unbound \ {sMockMap'[c.type][c.id]}
    ELSE UNCHANGED <<olog, unbound>>

\* A vend on T ends the queueing phase of T.
Vended(T) == [phase EXCEPT ![T] = IF @ = "queue" THEN "vend" ELSE @]

----------------------------------------------------------------------------
(* Revision 2: src/unnamed/part_001                                         *)

State2 == [map |-> sMockMap, list |-> mMockList, vended |-> mVendedMock]

\* A variant of restored2 that drops the double instead of putting it back.
restored2_drop(list, mock) == list

\* sInstance->mMockList.push_front(sInstance->mVendedMock)
restored2(list, mock) == <<mock>> \o list

\* A variant of cleared2 that leaves the pointer set.
cleared2_keep(vended) == vended

\* sInstance->mVendedMock = nullptr
cleared2(vended) == Null

\* A variant of mapLinks2 that stops at the direct base.
mapLinks2_none(X) == << >>

\* The base links _mapMock hands the double on to.
mapLinks2(X) == sBaseLinks[X]

\* MockVendor::_mapMock(ths, mock) on registry X, and the loop over the base
\* links, each BaseLink::vend calling _mapMock of the registry it links to.
RECURSIVE mapMock2(_, _, _, _), linksVend2(_, _, _, _)
mapMock2(st, X, id, m) ==
    LET k == sInstance[X]
        s1 == [st EXCEPT !.map[X] = Put(@, id, m)]
        s2 == IF k # 0 /\ s1.vended[X][k] # Null
              THEN [s1 EXCEPT !.list[X][k] = restored2(@, s1.vended[X][k]),
                              !.vended[X][k] = cleared2(@)]
              ELSE s1
    IN  linksVend2(s2, mapLinks2(X), id, m)

linksVend2(st, links, id, m) ==
    IF links = << >> THEN st
    ELSE linksVend2(mapMock2(st, Head(links), id, m), Tail(links), id, m)

\* MockVendor::vend(ths) on registry T.
vendData2(st, T, id) ==
    LET k == sInstance[T]
        pop == k # 0 /\ st.list[T][k] # << >>
        m == IF pop THEN Head(st.list[T][k]) ELSE NiceMock(T, id)
        s1 == IF pop
              THEN [st EXCEPT !.map[T] = Put(@, id, m),
                              !.vended[T][k] = m,
                              !.list[T][k] = Tail(@)]
              ELSE [st EXCEPT !.map[T] = Put(@, id, m)]
    IN  linksVend2(s1, sBaseLinks[T], id, m)

vend2(T, id) ==
    LET st == vendData2(State2, T, id)
    IN  /\ sMockMap' = st.map
        /\ mMockList' = st.list
        /\ mVendedMock' = st.vended
        /\ phase' = Vended(T)
        /\ reported' = << >>
        /\ UNCHANGED <<nextMock, scopes, sInstance, mStaticMock, sBaseLinks, qlog>>

\* MockVendor::destroy(ths) on registry T: the base links first (each
\* BaseLink::destroy calling destroy of the registry it links to), then the
\* own entry.
RECURSIVE destroyData2(_, _, _), linksDestroy2(_, _, _)
destroyData2(map, T, id) ==
    LET m1 == linksDestroy2(map, sBaseLinks[T], id)
    IN  [m1 EXCEPT ![T] = IF id \in DOMAIN @ THEN Erase(@, id) ELSE @]

linksDestroy2(map, links, id) ==
    IF links = << >> THEN map
    ELSE linksDestroy2(destroyData2(map, Head(links), id), Tail(links), id)

destroy2(T, id) ==
    /\ sMockMap' = destroyData2(sMockMap, T, id)
    /\ reported' = << >>
    /\ UNCHANGED <<nextMock, scopes, sInstance, mMockList, mStaticMock, mVendedMock,
                   sBaseLinks, qlog, phase>>

\* MockVendor::MockVendor()
NewVendor2(T) ==
    /\ chain = << >>
    /\ scopes[T] # Slots
    /\ newed < MaxVendors
    /\ newed' = newed + 1
    /\ scopes' = [scopes EXCEPT ![T] = @ \cup {FreeSlot(T)}]
    /\ sInstance' = [sInstance EXCEPT ![T] = FreeSlot(T)]
    /\ reported' = << >>
    /\ qlog' = [qlog EXCEPT ![T] = << >>]
    /\ olog' = [olog EXCEPT ![T] = << >>]
    /\ phase' = [phase EXCEPT ![T] = "queue"]
    /\ UNCHANGED <<objs, chain, nextMock, sMockMap, mMockList, mStaticMock, mVendedMock,
                   sBaseLinks, unbound, made, vlog>>
    /\ UNCHANGED <<thrVars, stepVars, rev1Vars, rev3Vars, calls>>

\* MockVendor::~MockVendor() of the instance in slot k
DeleteVendor2(T, k) ==
    /\ chain = << >>
    /\ k \in scopes[T]
    /\ reported' = teardownFailures(T, mMockList[T][k], sMockMap[T])
    /\ sMockMap' = [sMockMap EXCEPT ![T] = EmptyMap]
    /\ sInstance' = [sInstance EXCEPT ![T] = 0]
    /\ scopes' = [scopes EXCEPT ![T] = @ \ {k}]
    /\ mMockList' = [mMockList EXCEPT ![T][k] = << >>]
    /\ mStaticMock' = [mStaticMock EXCEPT ![T][k] = Null]
    /\ mVendedMock' = [mVendedMock EXCEPT ![T][k] = Null]
    /\ qlog' = [qlog EXCEPT ![T] = << >>]
    /\ olog' = [olog EXCEPT ![T] = << >>]
    /\ phase' = [phase EXCEPT ![T] = "queue"]
    /\ UNCHANGED <<objs, chain, nextMock, sBaseLinks, unbound, made, newed, vlog>>
    /\ UNCHANGED <<thrVars, stepVars, rev1Vars, rev3Vars, calls>>

\* MockVendor::queueMock(mock) on the instance in slot k, with a double the
\* test has just created
QueueMock2(T, k) ==
    /\ chain = << >>
    /\ k \in scopes[T]
    /\ nextMock < MaxMocks
    /\ nextMock' = nextMock + 1
    /\ mMockList' = [mMockList EXCEPT ![T][k] = Append(@, Mock(T, nextMock + 1))]
    /\ unbound' = unbound \cup {Mock(T, nextMock + 1)}
    /\ IF k = sInstance[T]
       THEN /\ qlog' = [qlog EXCEPT ![T] = Append(@, Mock(T, nextMock + 1))]
            /\ phase' = [phase EXCEPT ![T] = IF @ = "queue" THEN @ ELSE "late"]
       ELSE UNCHANGED <<qlog, phase>>
    /\ reported' = << >>
    /\ UNCHANGED <<objs, chain, scopes, sMockMap, sInstance, mStaticMock, mVendedMock,
                   sBaseLinks, olog, made, newed, vlog>>
    /\ UNCHANGED <<thrVars, stepVars, rev1Vars, rev3Vars, calls>>

\* One call of a constructor or destructor body.
Call2(c) ==
    IF c.op = "vend" THEN vend2(c.type, c.id) ELSE destroy2(c.type, c.id)

\* new K at address id: the first constructor body of the chain runs.
Construct2(K, id) ==
    /\ chain = << >>
    /\ id = FreeAddress
    /\ made < MaxObjects
    /\ made' = made + 1
    /\ objs' = [objs EXCEPT ![id] = K]
    /\ Call2(Head(Calls("vend", CtorChain(K), id)))
    /\ chain' = Tail(Calls("vend", CtorChain(K), id))
    /\ Monitor(Head(Calls("vend", CtorChain(K), id)), chain' = << >>)
    /\ UNCHANGED <<newed, vlog>>
    /\ UNCHANGED <<thrVars, stepVars, rev1Vars, rev3Vars, calls>>

\* delete of the object at address id: the most derived destructor body runs.
Delete2(id) ==
    /\ chain = << >>
    /\ objs[id] # NoClass
    /\ objs' = [objs EXCEPT ![id] = NoClass]
    /\ Call2(Head(Calls("destroy", DtorChain(objs[id]), id)))
    /\ chain' = Tail(Calls("destroy", DtorChain(objs[id]), id))
    /\ UNCHANGED <<olog, unbound, made, newed, vlog>>
    /\ UNCHANGED <<thrVars, stepVars, rev1Vars, rev3Vars, calls>>

\* The next constructor or destructor body of the running chain.
Chain2 ==
    /\ chain # << >>
    /\ Call2(Head(chain))
    /\ chain' = Tail(chain)
    /\ Monitor(Head(chain), chain' = << >>)
    /\ UNCHANGED <<objs, made, newed, vlog>>
    /\ UNCHANGED <<thrVars, stepVars, rev1Vars, rev3Vars, calls>>

Next2 ==
    \/ \E T \in Types : NewVendor2(T)
    \/ \E T \in Types, k \in Slots : DeleteVendor2(T, k)
    \/ \E T \in Types, k \in Slots : QueueMock2(T, k)
    \/ \E K \in Types, id \in Ids : Construct2(K, id)
    \/ \E id \in Ids : Delete2(id)
    \/ Chain2

Spec2 == Init /\ [][Next2]_vars

----------------------------------------------------------------------------
(* Revision 2 on a diamond: ObjE with the bases ObjB and ObjD, which share   *)
(* the virtual base ObjA, and a BaseLink for every edge                      *)

DiamondTypes == {"A", "B", "D", "E"}

DiamondLinks(T) ==
    CASE T = "E" -> <<"B", "D">>
      [] T = "B" -> <<"A">>
      [] T = "D" -> <<"A">>
      [] OTHER -> << >>

\* The constructors that run for an object of class K, the shared base once.
DiamondCtorChain(K) ==
    CASE K = "E" -> <<"A", "B", "D", "E">>
      [] K = "B" -> <<"A", "B">>
      [] K = "D" -> <<"A", "D">>
      [] OTHER -> <<K>>

InitD == InitWith([T \in Registries |-> DiamondLinks(T)])

Construct2D(K, id) ==
    /\ chain = << >>
    /\ id = FreeAddress
    /\ made < MaxObjects
    /\ made' = made + 1
    /\ objs' = [objs EXCEPT ![id] = K]
    /\ Call2(Head(Calls("vend", DiamondCtorChain(K), id)))
    /\ chain' = Tail(Calls("vend", DiamondCtorChain(K), id))
    /\ Monitor(Head(Calls("vend", DiamondCtorChain(K), id)), chain' = << >>)
    /\ UNCHANGED <<newed, vlog>>
    /\ UNCHANGED <<thrVars, stepVars, rev1Vars, rev3Vars, calls>>

Delete2D(id) ==
    /\ chain = << >>
    /\ objs[id] # NoClass
    /\ objs' = [objs EXCEPT ![id] = NoClass]
    /\ Call2(Head(Calls("destroy", Reverse(DiamondCtorChain(objs[id])), id)))
    /\ chain' = Tail(Calls("destroy", Reverse(DiamondCtorChain(objs[id])), id))
    /\ UNCHANGED <<olog, unbound, made, newed, vlog>>
    /\ UNCHANGED <<thrVars, stepVars, rev1Vars, rev3Vars, calls>>

Next2D ==
    \/ \E T \in DiamondTypes : NewVendor2(T)
    \/ \E T \in DiamondTypes, k \in Slots : DeleteVendor2(T, k)
    \/ \E T \in DiamondTypes, k \in Slots : QueueMock2(T, k)
    \/ \E K \in DiamondTypes, id \in Ids : Construct2D(K, id)
    \/ \E id \in Ids : Delete2D(id)
    \/ Chain2

Spec2D == InitD /\ [][Next2D]_vars

----------------------------------------------------------------------------
(* Revision 1: src/MockVendor/MockVendor.h                                  *)

State1 == [map |-> sMockMap, list |-> mMockList, popped |-> sLastMockWasPopped]

\* MockVendor::mock(ths): sMockMap[ths], which makes an empty entry for an
\* address the map does not hold.
mock1(map, id) == IF id \in DOMAIN map THEN map ELSE Put(map, id, Null)

\* A variant of restoredEntry1 that leaves the popped double in the map.
restoredEntry1_keep(poppedMock, inheritedMock) == poppedMock

\* sMockMap[ths] = inheritedMock in _restoreMock
restoredEntry1(poppedMock, inheritedMock) == inheritedMock

\* A variant of restoreMock1 that assigns the inherited double to every entry
\* of the map.
restoreMock1_all(st, X, id, poppedMock, inheritedMock) ==
    LET k == sInstance[X]
        s1 == IF k # 0
              THEN [st EXCEPT !.list[X][k] = <<poppedMock>> \o @]
              ELSE st
    IN  [s1 EXCEPT !.map[X] = [i \in DOMAIN @ \cup {id} |->
                                  restoredEntry1(poppedMock, inheritedMock)],
                   !.popped[X] = FALSE]

\* MockVendor::_restoreMock(ths, poppedMock, inheritedMock) on registry X
restoreMock1(st, X, id, poppedMock, inheritedMock) ==
    LET k == sInstance[X]
        s1 == IF k # 0
              THEN [st EXCEPT !.list[X][k] = <<poppedMock>> \o @]
              ELSE st
    IN  [s1 EXCEPT !.map[X] = Put(@, id, restoredEntry1(poppedMock, inheritedMock)),
                   !.popped[X] = FALSE]

\* BaseLink::linkRestoreMockIfPopped(ths, inheritedMock) of a link to X
linkRestoreMockIfPopped1(st, X, id, inheritedMock) ==
    IF st.popped[X]
    THEN LET s1 == [st EXCEPT !.map[X] = mock1(@, id)]
         IN  restoreMock1(s1, X, id, s1.map[X][id], inheritedMock)
    ELSE st

\* The loop of vend over sBaseLinks.
RECURSIVE links1(_, _, _, _)
links1(st, links, id, m) ==
    IF links = << >> THEN st
    ELSE links1(linkRestoreMockIfPopped1(st, Head(links), id, m), Tail(links), id, m)

\* MockVendor::vend(ths) on registry T.
vendData1(st, T, id) ==
    LET k == sInstance[T]
        pop == k # 0 /\ st.list[T][k] # << >>
        m == IF pop THEN Head(st.list[T][k]) ELSE NiceMock(T, id)
        s1 == IF pop
              THEN [st EXCEPT !.map[T] = Put(@, id, m),
                              !.list[T][k] = Tail(@),
                              !.popped[T] = TRUE]
              ELSE [st EXCEPT !.map[T] = Put(@, id, m)]
    IN  links1(s1, sBaseLinks[T], id, m)

\* The vends the constructors of the classes ts make for the object at id,
\* base first.
RECURSIVE vendChain1(_, _, _)
vendChain1(st, ts, id) ==
    IF ts = << >> THEN st
    ELSE vendChain1(vendData1(st, Head(ts), id), Tail(ts), id)

\* A variant of vendReturn1 that returns what the first base holds.
vendReturn1_base(st, T, id) ==
    IF sBaseLinks[T] # << >> THEN st.map[sBaseLinks[T][1]][id] ELSE st.map[T][id]

\* return sMockMap[ths] at the end of vend, st being the state it has made.
vendReturn1(st, T, id) == st.map[T][id]

vend1(T, id) ==
    LET st == vendData1(State1, T, id)
    IN  /\ sMockMap' = st.map
        /\ mMockList' = st.list
        /\ sLastMockWasPopped' = st.popped
        /\ phase' = Vended(T)
        /\ reported' = << >>
        /\ UNCHANGED <<nextMock, scopes, sInstance, mStaticMock, sBaseLinks, qlog>>

\* A variant of destroyData1 that erases nothing.
destroyData1_keep(st, T, id) == st

\* MockVendor::destroy(ths) on registry T, as a function of the state.
destroyData1(st, T, id) ==
    [st EXCEPT !.map[T] = IF id \in DOMAIN @ THEN Erase(@, id) ELSE @]

\* MockVendor::destroy(ths) on registry T.
destroy1(T, id) ==
    /\ sMockMap' = destroyData1(State1, T, id).map
    /\ reported' = << >>
    /\ UNCHANGED <<nextMock, scopes, sInstance, mMockList, mStaticMock,
                   sLastMockWasPopped, sBaseLinks, qlog, phase>>

\* A variant of moveData1 without the test of from against to.
moveData1_unguarded(map, to, from) ==
    Erase(Put(mock1(map, from), to, mock1(map, from)[from]), from)

\* The statements of MockVendor::move(to, from) on the map of a registry:
\* sMockMap[to] = sMockMap[from] (either operator[] making an empty entry
\* for an address the map does not hold), then sMockMap.erase(from).
moveData1(map, to, from) ==
    IF from # to
    THEN Erase(Put(mock1(map, from), to, mock1(map, from)[from]), from)
    ELSE map

\* A variant of moved1 that routes the move through the base links.
moved1_links(T) == {T} \cup {sBaseLinks[T][i] : i \in DOMAIN sBaseLinks[T]}

\* The registries whose map MockVendor::move touches: sMockMap is the static
\* member of the class the call is made on.
moved1(T) == {T}

\* MockVendor::move(to, from) on registry T.
Move1(T, to, from) ==
    /\ chain = << >>
    /\ Len(calls) < MaxCalls
    /\ calls' = Append(calls, Direct("move", T, to, from))
    /\ sMockMap' = [X \in Registries |-> IF X \in moved1(T)
                                         THEN moveData1(sMockMap[X], to, from)
                                         ELSE sMockMap[X]]
    /\ reported' = << >>
    /\ UNCHANGED <<objs, chain, nextMock, scopes, sInstance, mMockList, mStaticMock,
                   sLastMockWasPopped, sBaseLinks, qlog, vlog, made, newed>>
    /\ UNCHANGED <<thrVars, stepVars, rev2Vars, rev3Vars, monVars>>

\* What MockVendor::mock(ths) returns.
lookupReturn1(map, id) == mock1(map, id)[id]

\* MockVendor::mock(ths) on registry T, called by a forwarded method or by
\* the test.
Lookup1(T, id) ==
    /\ chain = << >>
    /\ Len(calls) < MaxCalls
    /\ calls' = Append(calls, Direct("mock", T, id, id))
    /\ sMockMap' = [sMockMap EXCEPT ![T] = mock1(@, id)]
    /\ reported' = << >>
    /\ UNCHANGED <<objs, chain, nextMock, scopes, sInstance, mMockList, mStaticMock,
                   sLastMockWasPopped, sBaseLinks, qlog, vlog, made, newed>>
    /\ UNCHANGED <<thrVars, stepVars, rev2Vars, rev3Vars, monVars>>

\* MockVendor::MockVendor()
NewVendor1(T) ==
    /\ chain = << >>
    /\ scopes[T] # Slots
    /\ newed < MaxVendors
    /\ newed' = newed + 1
    /\ scopes' = [scopes EXCEPT ![T] = @ \cup {FreeSlot(T)}]
    /\ sInstance' = [sInstance EXCEPT ![T] = FreeSlot(T)]
    /\ reported' = << >>
    /\ qlog' = [qlog EXCEPT ![T] = << >>]
    /\ olog' = [olog EXCEPT ![T] = << >>]
    /\ phase' = [phase EXCEPT ![T] = "queue"]
    /\ UNCHANGED <<objs, chain, nextMock, sMockMap, mMockList, mStaticMock,
                   sLastMockWasPopped, sBaseLinks, unbound, made, vlog>>
    /\ UNCHANGED <<thrVars, stepVars, rev2Vars, rev3Vars, calls>>

\* MockVendor::~MockVendor() of the instance in slot k
DeleteVendor1(T, k) ==
    /\ chain = << >>
    /\ k \in scopes[T]
    /\ reported' = teardownFailures(T, mMockList[T][k], sMockMap[T])
    /\ sMockMap' = [sMockMap EXCEPT ![T] = EmptyMap]
    /\ sInstance' = [sInstance EXCEPT ![T] = 0]
    /\ scopes' = [scopes EXCEPT ![T] = @ \ {k}]
    /\ mMockList' = [mMockList EXCEPT ![T][k] = << >>]
    /\ mStaticMock' = [mStaticMock EXCEPT ![T][k] = Null]
    /\ qlog' = [qlog EXCEPT ![T] = << >>]
    /\ olog' = [olog EXCEPT ![T] = << >>]
    /\ phase' = [phase EXCEPT ![T] = "queue"]
    /\ UNCHANGED <<objs, chain, nextMock, sLastMockWasPopped, sBaseLinks, unbound,
                   made, newed, vlog>>
    /\ UNCHANGED <<thrVars, stepVars, rev2Vars, rev3Vars, calls>>

\* MockVendor::queueMock(mock) on the instance in slot k, with a double the
\* test has just created
QueueMock1(T, k) ==
    /\ chain = << >>
    /\ k \in scopes[T]
    /\ nextMock < MaxMocks
    /\ nextMock' = nextMock + 1
    /\ mMockList' = [mMockList EXCEPT ![T][k] = Append(@, Mock(T, nextMock + 1))]
    /\ unbound' = unbound \cup {Mock(T, nextMock + 1)}
    /\ IF k = sInstance[T]
       THEN /\ qlog' = [qlog EXCEPT ![T] = Append(@, Mock(T, nextMock + 1))]
            /\ phase' = [phase EXCEPT ![T] = IF @ = "queue" THEN @ ELSE "late"]
       ELSE UNCHANGED <<qlog, phase>>
    /\ reported' = << >>
    /\ UNCHANGED <<objs, chain, scopes, sMockMap, sInstance, mStaticMock,
                   sLastMockWasPopped, sBaseLinks, olog, made, newed, vlog>>
    /\ UNCHANGED <<thrVars, stepVars, rev2Vars, rev3Vars, calls>>

\* One call of a constructor or destructor body.
Call1(c) ==
    IF c.op = "vend" THEN vend1(c.type, c.id) ELSE destroy1(c.type, c.id)

\* new K at address id: the first constructor body of the chain runs.
Construct1(K, id) ==
    /\ chain = << >>
    /\ id = FreeAddress
    /\ made < MaxObjects
    /\ made' = made + 1
    /\ objs' = [objs EXCEPT ![id] = K]
    /\ Call1(Head(Calls("vend", CtorChain(K), id)))
    /\ chain' = Tail(Calls("vend", CtorChain(K), id))
    /\ Monitor(Head(Calls("vend", CtorChain(K), id)), chain' = << >>)
    /\ UNCHANGED <<newed, vlog>>
    /\ UNCHANGED <<thrVars, stepVars, rev2Vars, rev3Vars, calls>>

\* delete of the object at address id: the most derived destructor body runs.
Delete1(id) ==
    /\ chain = << >>
    /\ objs[id] # NoClass
    /\ objs' = [objs EXCEPT ![id] = NoClass]
    /\ Call1(Head(Calls("destroy", DtorChain(objs[id]), id)))
    /\ chain' = Tail(Calls("destroy", DtorChain(objs[id]), id))
    /\ UNCHANGED <<olog, unbound, made, newed, vlog>>
    /\ UNCHANGED <<thrVars, stepVars, rev2Vars, rev3Vars, calls>>

\* The next constructor or destructor body of the running chain.
Chain1 ==
    /\ chain # << >>
    /\ Call1(Head(chain))
    /\ chain' = Tail(chain)
    /\ Monitor(Head(chain), chain' = << >>)
    /\ UNCHANGED <<objs, made, newed, vlog>>
    /\ UNCHANGED <<thrVars, stepVars, rev2Vars, rev3Vars, calls>>

Next1 ==
    \/ \E T \in Types : NewVendor1(T)
    \/ \E T \in Types, k \in Slots : DeleteVendor1(T, k)
    \/ \E T \in Types, k \in Slots : QueueMock1(T, k)
    \/ \E K \in Types, id \in Ids : Construct1(K, id)
    \/ \E id \in Ids : Delete1(id)
    \/ Chain1
    \/ \E T \in Types, to \in Ids, from \in Ids : Move1(T, to, from)
    \/ \E T \in Types, id \in Ids : Lookup1(T, id)

Spec1 == Init /\ [][Next1]_vars

----------------------------------------------------------------------------
(* Revision 1, two threads calling the registry operations                   *)

\* The maps an operation reads or writes: vend writes the maps of the linked
\* bases as well.
Touches(r) ==
    IF r.op = "vend"
    THEN {r.type} \cup {sBaseLinks[r.type][i] : i \in DOMAIN sBaseLinks[r.type]}
    ELSE {r.type}

\* The maps on which the access of thread t, in operation r, is a data race:
\* another thread is inside an operation on the same map and one of the two
\* is move, which does not take the mutex.
Racing(t, r) ==
    {X \in Touches(r) :
        \E u \in Threads \ {t} :
            /\ thr[u].at # "idle"
            /\ X \in Touches(thr[u])
            /\ r.op = "move" \/ thr[u].op = "move"}

\* What a std::map can hold after unsynchronised accesses: any entries, with
\* any of the pointers in play.
Torn(det) ==
    LET vals == {Null} \cup UNION {Range(sMockMap[X]) \cup Range(det[X]) : X \in Registries}
    IN  UNION {[S -> vals] : S \in SUBSET Ids}

\* The maps after the access of thread t in operation r: det where the
\* access is ordered with the others, anything where it is a data race.
Accessed(t, r, det) ==
    \E torn \in [Racing(t, r) -> Torn(det)] :
        sMockMap' = [X \in Registries |-> IF X \in Racing(t, r) THEN torn[X] ELSE det[X]]

\* std::scoped_lock<std::recursive_mutex> lock(gMockVendorMutex), the first
\* statement of vend, destroy and mock.
ThreadLock(t, o, T, id) ==
    /\ thr[t].at = "idle"
    /\ thr[t].n < MaxOps
    /\ gMockVendorMutex = 0
    /\ gMockVendorMutex' = t
    /\ thr' = [thr EXCEPT ![t] = [at |-> "locked", op |-> o, type |-> T,
                                  to |-> id, from |-> id, n |-> @.n]]
    /\ UNCHANGED <<objs, chain, nextMock, scopes, sMockMap, sInstance, mMockList, mStaticMock,
                   sLastMockWasPopped, sBaseLinks, qlog, vlog, made, newed, calls, reported>>
    /\ UNCHANGED <<rev2Vars, rev3Vars, monVars, stepVars>>

\* The body of vend, destroy or mock, and the release of the mutex at the
\* return.
ThreadBody(t) ==
    LET r == thr[t]
        st == vendData1(State1, r.type, r.to)
    IN  /\ r.at = "locked"
        /\ CASE r.op = "vend" ->
                  /\ Accessed(t, r, st.map)
                  /\ mMockList' = st.list
                  /\ sLastMockWasPopped' = st.popped
             [] r.op = "destroy" ->
                  /\ Accessed(t, r, [sMockMap EXCEPT ![r.type] =
                                        IF r.to \in DOMAIN @ THEN Erase(@, r.to) ELSE @])
                  /\ UNCHANGED <<mMockList, sLastMockWasPopped>>
             [] r.op = "mock" ->
                  /\ Accessed(t, r, [sMockMap EXCEPT ![r.type] = mock1(@, r.to)])
                  /\ UNCHANGED <<mMockList, sLastMockWasPopped>>
        /\ gMockVendorMutex' = 0
        /\ thr' = [thr EXCEPT ![t] = Idle(r.n + 1)]
        /\ UNCHANGED <<objs, chain, nextMock, scopes, sInstance, mStaticMock,
                       sBaseLinks, qlog, vlog, made, newed, calls, reported>>
        /\ UNCHANGED <<rev2Vars, rev3Vars, monVars, stepVars>>

\* move(to, from) up to the erase: the test of from against to and, where
\* they differ, sMockMap[to] = sMockMap[from]. No mutex is taken.
MoveAssign(t, T, to, from) ==
    LET r == [at |-> "moving", op |-> "move", type |-> T, to |-> to, from |-> from,
              n |-> thr[t].n]
    IN  /\ thr[t].at = "idle"
        /\ thr[t].n < MaxOps
        /\ IF from # to
           THEN /\ Accessed(t, r, [sMockMap EXCEPT ![T] =
                                     Put(mock1(@, from), to, mock1(@, from)[from])])
                /\ thr' = [thr EXCEPT ![t] = r]
           ELSE /\ sMockMap' = sMockMap
                /\ thr' = [thr EXCEPT ![t] = Idle(@.n + 1)]
        /\ UNCHANGED <<objs, chain, nextMock, scopes, sInstance, mMockList, mStaticMock,
                       sLastMockWasPopped, sBaseLinks, qlog, vlog, made, newed, calls,
                       gMockVendorMutex, reported>>
        /\ UNCHANGED <<rev2Vars, rev3Vars, monVars, stepVars>>

\* sMockMap.erase(from), the last statement of move.
MoveErase(t) ==
    LET r == thr[t]
    IN  /\ r.at = "moving"
        /\ Accessed(t, r, [sMockMap EXCEPT ![r.type] =
                              IF r.from \in DOMAIN @ THEN Erase(@, r.from) ELSE @])
        /\ thr' = [thr EXCEPT ![t] = Idle(r.n + 1)]
        /\ UNCHANGED <<objs, chain, nextMock, scopes, sInstance, mMockList, mStaticMock,
                       sLastMockWasPopped, sBaseLinks, qlog, vlog, made, newed, calls,
                       gMockVendorMutex, reported>>
        /\ UNCHANGED <<rev2Vars, rev3Vars, monVars, stepVars>>

Next1T ==
    \/ \E t \in Threads, o \in {"vend", "destroy", "mock"}, T \in Types, id \in Ids :
          ThreadLock(t, o, T, id)
    \/ \E t \in Threads : ThreadBody(t)
    \/ \E t \in Threads, T \in Types, to \in Ids, from \in Ids : MoveAssign(t, T, to, from)
    \/ \E t \in Threads : MoveErase(t)

Spec1T == Init /\ [][Next1T]_vars

----------------------------------------------------------------------------
(* Steps of the real-object protocol, recognised from a pair of states.     *)

\* vend(id) on registry T is the call this step makes.
VendStep(T, id) ==
    \/ /\ chain = << >>
       /\ made' = made + 1
       /\ id = FreeAddress
       /\ T = CtorChain(objs'[id])[1]
    \/ /\ chain # << >>
       /\ Head(chain) = Op("vend", T, id)
       /\ chain' = Tail(chain)

\* destroy(id) on registry T is the call this step makes.
DestroyStep(T, id) ==
    \/ /\ chain = << >>
       /\ objs[id] # NoClass
       /\ objs'[id] = NoClass
       /\ T = objs[id]
    \/ /\ chain # << >>
       /\ Head(chain) = Op("destroy", T, id)
       /\ chain' = Tail(chain)

Failures(kind, T) == {i \in DOMAIN reported : reported[i].kind = kind /\ reported[i].type = T}
AllFailures(kind) == {i \in DOMAIN reported : reported[i].kind = kind}

----------------------------------------------------------------------------
(* Claims settled on revision 3                                              *)

RECURSIVE Ancestors3(_)
Ancestors3(T) ==
    {BaseMockVendors(T)[i] : i \in DOMAIN BaseMockVendors(T)}
    \cup UNION {Ancestors3(BaseMockVendors(T)[i]) : i \in DOMAIN BaseMockVendors(T)}

C9_OneUnconsumed ==
    (newed = 1 /\ nextMock = 1 /\ made = 0 /\ \A T \in Types : scopes[T] = {})
    => /\ Cardinality(AllFailures("unconsumed")) = 1
       /\ AllFailures("leak") = {}

----------------------------------------------------------------------------
(* Claims settled on revisions 1 and 2                                       *)

\* The teardown of a MockVendor instance of T is what this step does.
TeardownStep(T) == scopes'[T] # scopes[T] /\ scopes'[T] \subseteq scopes[T]

\* The registries reachable from T through base links.
RECURSIVE LinkAncestors(_)
LinkAncestors(T) ==
    {DeclaredLinks(T)[i] : i \in DOMAIN DeclaredLinks(T)}
    \cup UNION {LinkAncestors(DeclaredLinks(T)[i]) : i \in DOMAIN DeclaredLinks(T)}

Min(a, b) == IF a < b THEN a ELSE b

\* C2: propagation.  Right after vend(id) on a registry with a base link to
\* X, the map of X holds for id the double the registry itself holds for id.
C2_Propagation ==
    [][\A T \in Types, id \in Ids :
        VendStep(T, id)
        => \A i \in DOMAIN sBaseLinks[T] :
              /\ id \in DOMAIN sMockMap'[sBaseLinks[T][i]]
              /\ sMockMap'[sBaseLinks[T][i]][id] = sMockMap'[T][id]]_vars

\* C3: multi-level propagation.  When the constructor chain of an object has
\* made its vend on registry T, the map of every registry reachable from T
\* through base links holds for the object the double bound at the level of
\* T (the front of T's queue if it had one); so for an object of C the maps
\* of A, B and C agree on the double of the C level.
C3_MultiLevel ==
    [][\A T \in Types, id \in Ids :
        VendStep(T, id)
        => /\ Queue(T) # << >> => sMockMap'[T][id] = Head(Queue(T))
           /\ \A X \in LinkAncestors(T) :
                 /\ id \in DOMAIN sMockMap'[X]
                 /\ sMockMap'[X][id] = sMockMap'[T][id]]_vars

\* An object of C has been constructed with a double queued for C, and the
\* maps of A and B hold that double for it.
C3_Witness ==
    \E id \in Ids :
        /\ chain = << >>
        /\ objs[id] = "C"
        /\ id \in DOMAIN sMockMap["C"]
        /\ IsQueuedDouble(sMockMap["C"][id])
        /\ MockClass(sMockMap["C"][id]) = "C"
        /\ id \in DOMAIN sMockMap["B"] /\ sMockMap["B"][id] = sMockMap["C"][id]
        /\ id \in DOMAIN sMockMap["A"] /\ sMockMap["A"][id] = sMockMap["C"][id]

\* C4: the restore rule under mixed constructions.  With the doubles of a
\* type queued before any object is constructed, the k-th object of a class
\* is bound to the k-th double queued for the class, whatever objects of
\* derived and base classes are constructed in between; and a double of a
\* base that the base constructor of a derived object took from the base's
\* queue is at the front of that queue again, and the base's map holds the
\* propagated double, when the derived vend is done.
C4_MixedFifo ==
    [][/\ \A K \in Types :
            phase'[K] # "late"
            => \A k \in 1..Min(Len(olog'[K]), Len(qlog'[K])) : olog'[K][k] = qlog'[K][k]
       /\ \A T \in Types, id \in Ids :
            VendStep(T, id)
            => \A i \in DOMAIN sBaseLinks[T] :
                  LET X == sBaseLinks[T][i]
                  IN  (/\ id \in DOMAIN sMockMap[X]
                       /\ IsQueuedDouble(sMockMap[X][id])
                       /\ MockClass(sMockMap[X][id]) = X)
                      => /\ sInstance'[X] # 0
                         /\ mMockList'[X][sInstance'[X]] # << >>
                         /\ Head(mMockList'[X][sInstance'[X]]) = sMockMap[X][id]
                         /\ sMockMap'[X][id] = sMockMap'[T][id]]_vars

\* An object of B was constructed first and took, in the constructor of A,
\* the one double queued for A; the object of A constructed after it is
\* bound to that double all the same, and the object of B to the double of B.
C4_Witness ==
    /\ chain = << >>
    /\ objs[1] = "B" /\ objs[2] = "A"
    /\ phase["A"] = "vend" /\ phase["B"] = "vend"
    /\ Len(qlog["A"]) = 1 /\ olog["A"] = qlog["A"]
    /\ Len(qlog["B"]) = 1 /\ olog["B"] = qlog["B"]
    /\ 1 \in DOMAIN sMockMap["A"] /\ sMockMap["A"][1] = qlog["B"][1]
    /\ 2 \in DOMAIN sMockMap["A"] /\ sMockMap["A"][2] = qlog["A"][1]

\* The number of places of the queues of T's instances that hold d.
Occurrences(T, d) ==
    Cardinality({<<k, i>> \in Slots \X (1..MaxMocks + MaxObjects) :
                    i <= Len(mMockList[T][k]) /\ mMockList[T][k][i] = d})

\* C5: a queued double is consumed once.  At any time a double queued for a
\* type is bound by that type's own vend to at most one identity, is in the
\* type's queue at most once, and is not in the queue while it is so bound:
\* what a propagation puts back is the double the base constructor of the
\* same object had just taken, never one a standalone object holds.
C5_ConsumedOnce ==
    \A T \in Types, n \in 1..MaxMocks :
        LET d == Mock(T, n)
            ids == {id \in DOMAIN sMockMap[T] : sMockMap[T][id] = d}
        IN  /\ Cardinality(ids) <= 1
            /\ Occurrences(T, d) <= 1
            /\ ids # {} => Occurrences(T, d) = 0

\* The constructor of A took A's queued double for an object of B, the vend
\* of B put it back, and the object of A constructed next is bound to it.
C5_Witness ==
    /\ chain = << >>
    /\ objs[1] = "B" /\ objs[2] = "A"
    /\ 2 \in DOMAIN sMockMap["A"]
    /\ IsQueuedDouble(sMockMap["A"][2])
    /\ MockClass(sMockMap["A"][2]) = "A"
    /\ 1 \in DOMAIN sMockMap["A"] /\ 1 \in DOMAIN sMockMap["B"]
    /\ sMockMap["A"][1] = sMockMap["B"][1]

\* C8: a clean run reports nothing.  When the instance of a type is torn
\* down with every object destroyed and every double that was queued for the
\* type bound to an object that was constructed, no failure is reported.
C8_CleanRun ==
    [][\A T \in Types :
        (/\ TeardownStep(T)
         /\ \A i \in Ids : objs[i] = NoClass
         /\ \A d \in unbound : MockClass(d) # T)
        => reported' = << >>]_vars

----------------------------------------------------------------------------
(* Claims C11..C20                                                           *)

\* C11: teardown clears unconditionally.  When the instance counter of a
\* type goes from one to zero, the type's map, queue and static double are
\* empty afterwards, whatever the teardown reported.
C11_TeardownClears ==
    [][\A T \in Types :
        (sInstanceCount[T] = 1 /\ sInstanceCount'[T] = 0)
        => /\ DOMAIN sMockMap'[T] = {}
           /\ sMockList'[T] = << >>
           /\ sStaticMock'[T] = Null]_vars

C13_DefaultNoScope ==
    [][\A T \in Types, id \in Ids :
        /\ (VendStep(T, id) /\ \A X \in Types : scopes[X] = {})
           => /\ IsDefaultDouble(sMockMap'[T][id])
              /\ reported' = << >>
        /\ (DestroyStep(T, id) /\ \A X \in Types : scopes[X] = {})
           => /\ id \notin DOMAIN sMockMap'[T]
              /\ reported' = << >>]_vars

\* move(to, from) on registry T is what this step does.
MoveStep(T, to, from) == calls' = Append(calls, Direct("move", T, to, from))

\* The binding of id in registry T is not the same after the step.
Rebound(T, id) ==
    /\ id \in DOMAIN sMockMap[T]
    /\ id \notin DOMAIN sMockMap'[T] \/ sMockMap'[T][id] # sMockMap[T][id]

SetStaticStep3(T) == calls' = Append(calls, Direct("setStaticMock", T, 0, 0))

\* C15: after setStaticMock(m) on a live scope of a type, staticMock() of
\* that type returns m.
C15_StaticMockSet ==
    [][\A T \in Types :
        SetStaticStep3(T) => staticMock3(sStaticMock', T) = Mock(T, nextMock')]_vars

\* queueMock on a scope of D, with the double it was given, is what this
\* step does.
QueueStep3(D) ==
    /\ nextMock' = nextMock + 1
    /\ calls' = calls
    /\ sMockList'[D] = Append(sMockList[D], Mock(D, nextMock'))

\* C16: queueMock(m) on a scope of D appends m to the list of D and leaves
\* the list of every other registry, and every map, as they were.
C16_QueueNoPropagation ==
    [][\A D \in Types :
        QueueStep3(D)
        => /\ \A X \in Types \ {D} : sMockList'[X] = sMockList[X]
           /\ sMockMap' = sMockMap]_vars

\* mock(id) on registry T is what this step does.
LookupStep(T, id) == calls' = Append(calls, Direct("mock", T, id, id))

\* C18: mock(id) leaves every map as it was.
C18_LookupFrame ==
    [][\A T \in Types, id \in Ids : LookupStep(T, id) => sMockMap' = sMockMap]_vars

\* C19: move(to, from) with to # from on a registry where from is bound
\* binds to to the double of from, leaves from without an entry and every
\* other binding as it was; where from is not bound, a binding of to is
\* still there, and the same, afterwards.
C19_MoveRekeys ==
    [][\A T \in Types, to \in Ids, from \in Ids :
        (MoveStep(T, to, from) /\ to # from)
        => /\ from \in DOMAIN sMockMap[T]
              => /\ to \in DOMAIN sMockMap'[T]
                 /\ sMockMap'[T][to] = sMockMap[T][from]
                 /\ from \notin DOMAIN sMockMap'[T]
                 /\ \A o \in Ids \ {to, from} :
                       /\ o \in DOMAIN sMockMap'[T] <=> o \in DOMAIN sMockMap[T]
                       /\ o \in DOMAIN sMockMap[T] => sMockMap'[T][o] = sMockMap[T][o]
           /\ (from \notin DOMAIN sMockMap[T] /\ to \in DOMAIN sMockMap[T])
              => /\ to \in DOMAIN sMockMap'[T]
                 /\ sMockMap'[T][to] = sMockMap[T][to]]_vars

\* C20: move(x, x) on a registry, with x bound or not, changes nothing: the
\* maps, the queues and every other part of the state are as they were.
C20_MoveSame ==
    [][\A T \in Types, x \in Ids :
        MoveStep(T, x, x)
        => /\ sMockMap' = sMockMap
           /\ mMockList' = mMockList
           /\ UNCHANGED <<objs, chain, nextMock, scopes, sInstance, mStaticMock,
                          sLastMockWasPopped, sBaseLinks>>]_vars

\* move(x, x) was called for an identity that is bound to a queued double,
\* and the binding is there.
C20_Witness ==
    \E T \in Types, x \in Ids :
        /\ calls = <<Direct("move", T, x, x)>>
        /\ objs[x] = T
        /\ x \in DOMAIN sMockMap[T]
        /\ IsQueuedDouble(sMockMap[T][x])

\* C17: a thread that is inside a registry operation holds the mutex, and
\* no other thread is inside a registry operation at the same time.
C17_Serialized ==
    \A t \in Threads :
        thr[t].at # "idle"
        => /\ gMockVendorMutex = t
           /\ \A u \in Threads \ {t} : thr[u].at = "idle"

----------------------------------------------------------------------------
(* Claims C21..C30                                                           *)

\* The state st had the double at the front of T's queue never been queued.
NeverQueued1(st, T) ==
    IF sInstance[T] # 0 /\ st.list[T][sInstance[T]] # << >>
    THEN [st EXCEPT !.list[T][sInstance[T]] = Tail(@)]
    ELSE st

\* No registry has an entry for id.
Fresh(id) == \A X \in Types : id \notin DOMAIN sMockMap[X]

\* C21: vend(id) then destroy(id) on a registry leaves no residue.  From
\* any state between operations, the construction of an object of any class
\* at a fresh identity gives the same maps and queues after the round trip
\* as it gives in the state where the double the vend took, if any, had
\* never been queued.
C21_NoResidue ==
    \A T \in Types, D \in Types, id \in Ids, id2 \in Ids :
        (chain = << >> /\ id # id2 /\ Fresh(id) /\ Fresh(id2))
        => LET after == destroyData1(vendData1(State1, T, id), T, id)
               never == NeverQueued1(State1, T)
               a == vendChain1(after, CtorChain(D), id2)
               b == vendChain1(never, CtorChain(D), id2)
           IN  a.map = b.map /\ a.list = b.list

\* C22: several direct bases.  After vend(id) on the registry of a class,
\* the registry of every direct base holds for id the double the class's own
\* registry holds, and after destroy(id) on the registry of the class none of
\* them has an entry for id.
C22_MultiParent ==
    [][\A T \in MultiTypes, id \in Ids :
        /\ VendStep(T, id)
           => \A i \in DOMAIN RealBases(T) :
                 /\ id \in DOMAIN sMockMap'[RealBases(T)[i]]
                 /\ sMockMap'[RealBases(T)[i]][id] = sMockMap'[T][id]
        /\ DestroyStep(T, id)
           => \A i \in DOMAIN RealBases(T) :
                 id \notin DOMAIN sMockMap'[RealBases(T)[i]]]_vars

\* The registries reached from T through the base links, T not counted.
RECURSIVE Linked(_)
Linked(T) ==
    {sBaseLinks[T][i] : i \in DOMAIN sBaseLinks[T]}
    \cup UNION {Linked(sBaseLinks[T][i]) : i \in DOMAIN sBaseLinks[T]}

\* vend(id) on registry T is the call this step of the diamond makes.
VendStepD(T, id) ==
    \/ /\ chain = << >>
       /\ made' = made + 1
       /\ id = FreeAddress
       /\ T = DiamondCtorChain(objs'[id])[1]
    \/ /\ chain # << >>
       /\ Head(chain) = Op("vend", T, id)
       /\ chain' = Tail(chain)

BoundInBoth(D, B, id) ==
    /\ B \in LinkAncestors(D)
    /\ id \in DOMAIN sMockMap[D]
    /\ id \in DOMAIN sMockMap[B]

\* The state after destroy(id) on D and then on B.
Destroyed1(D, B, id) == destroyData1(destroyData1(State1, D, id), B, id)

\* The part of C24 that holds whatever the registries, for the state in which
\* destroy(id) is called on D: for every B above D that binds id too, the two
\* orders end in the same state, a further destroy on either changes nothing,
\* id is absent from D and from B, every other entry of every registry and
\* every queue is as it was; a destroy of an identity that is not bound
\* changes nothing.
DestroyAlgebra(D, id) ==
    /\ \A B \in Types :
          BoundInBoth(D, B, id)
          => LET db == Destroyed1(D, B, id)
             IN  /\ db = Destroyed1(B, D, id)
                 /\ destroyData1(db, D, id) = db
                 /\ destroyData1(db, B, id) = db
                 /\ id \notin DOMAIN db.map[D]
                 /\ id \notin DOMAIN db.map[B]
                 /\ \A X \in Registries :
                       db.map[X] = IF X \in {D, B} THEN Erase(sMockMap[X], id)
                                   ELSE sMockMap[X]
                 /\ db.list = mMockList
    /\ id \notin DOMAIN sMockMap[D] => destroyData1(State1, D, id) = State1

\* After destroy(id) on D and on B, id is absent from every registry reached
\* from D or B through base links.
AncestorsCleared(D, id) ==
    \A B \in Types :
        BoundInBoth(D, B, id)
        => \A X \in LinkAncestors(D) \cup LinkAncestors(B) :
              id \notin DOMAIN Destroyed1(D, B, id).map[X]

LastTeardown3(X) ==
    /\ scopes' # scopes
    /\ sInstanceCount[X] = 1
    /\ sInstanceCount'[X] = 0

----------------------------------------------------------------------------
(* The leak report of _destruct<MVD>(), statement by statement               *)

\* The largest number of leaked identities a report is built for.
MaxLeaked == 17

\* The maps a destructor can find: some live objects, each with a default
\* double.
LeakedMaps == {[i \in 1..n |-> -(100 + i)] : n \in 1..MaxLeaked}

\* The end iterator of the map, and the iterator after key k (std::map
\* iterates in key order).
EndRef == 0
NextRef(map, k) ==
    IF \E j \in DOMAIN map : j > k
    THEN CHOOSE j \in DOMAIN map : j > k /\ \A i \in DOMAIN map : i > k => j <= i
    ELSE EndRef

\* What the message holds: the header with the total, one line per listed
\* (Real, Mock) pair, the line "More...".
Remaining(n) == [line |-> "remaining", real |-> n, mock |-> Null]
RealMock(k, d) == [line |-> "pair", real |-> k, mock |-> d]
More == [line |-> "more", real |-> 0, mock |-> Null]
IsPair(l) == l.line = "pair"

\* A variant of capReached that stops one line later.
capReached_after(cnt) == cnt > MAX_LEAKED_REFS

\* if (cnt >= MAX_LEAKED_REFS)
capReached(cnt) == cnt >= MAX_LEAKED_REFS

stepFrame ==
    /\ UNCHANGED <<objs, chain, nextMock, scopes, sMockMap, qlog, vlog, made, newed, calls>>
    /\ UNCHANGED <<rev1Vars, rev2Vars, rev12Vars, rev3Vars, monVars>>

\* if (!MVD::sMockMap.empty()) { str << "Not all mock instances were
\* destroyed - " << size << " remaining"; if (MAX_LEAKED_REFS > 0) { cnt = 0;
\* the range-for starts at begin().
LeakHeader(map) ==
    /\ leakReport.pc = "none"
    /\ DOMAIN map # {}
    /\ leakReport' = [pc |-> IF MAX_LEAKED_REFS > 0 THEN "for" ELSE "fail",
                      map |-> map,
                      cnt |-> 0,
                      ref |-> NextRef(map, 0),
                      str |-> <<Remaining(Cardinality(DOMAIN map))>>]
    /\ UNCHANGED <<reported, thrVars, lockCount, frame, linkHeap>>
    /\ stepFrame

\* One turn of the loop: the line of the pair, ++cnt, and either the break
\* at the cap (with "More..." when the map is larger than the cap) or the
\* step to the next pair.
LeakLine ==
    LET r == leakReport
        line == Append(r.str, RealMock(r.ref, r.map[r.ref]))
        cnt == r.cnt + 1
    IN  /\ r.pc = "for"
        /\ r.ref # EndRef
        /\ leakReport' =
              IF capReached(cnt)
              THEN [r EXCEPT !.pc = "fail", !.cnt = cnt,
                             !.str = IF Cardinality(DOMAIN r.map) > MAX_LEAKED_REFS
                                     THEN Append(line, More) ELSE line]
              ELSE [r EXCEPT !.cnt = cnt, !.str = line, !.ref = NextRef(r.map, r.ref)]
        /\ UNCHANGED <<reported, thrVars, lockCount, frame, linkHeap>>
        /\ stepFrame

\* The range-for has reached end().
LeakExit ==
    /\ leakReport.pc = "for"
    /\ leakReport.ref = EndRef
    /\ leakReport' = [leakReport EXCEPT !.pc = "fail"]
    /\ UNCHANGED <<reported, thrVars, lockCount, frame, linkHeap>>
    /\ stepFrame

\* ADD_FAILURE() << str.str(): the failure, with what the message states.
LeakFail ==
    LET str == leakReport.str
    IN  /\ leakReport.pc = "fail"
        /\ reported' = <<[kind |-> "leak", type |-> "A",
                          remaining |-> str[1].real,
                          listed |-> Len(SelectSeq(str, IsPair)),
                          more |-> \E i \in DOMAIN str : str[i] = More]>>
        /\ leakReport' = [leakReport EXCEPT !.pc = "done"]
        /\ UNCHANGED <<thrVars, lockCount, frame, linkHeap>>
        /\ stepFrame

NextL ==
    \/ \E map \in LeakedMaps : LeakHeader(map)
    \/ LeakLine
    \/ LeakExit
    \/ LeakFail

SpecL == Init /\ [][NextL]_vars

\* C26: bounded leak report.  The failure reported for n > 0 leaked
\* identities states the total n, lists the pairs of the first min(n, 15)
\* identities and no other, and ends with the truncation marker if and only
\* if n > 15: it is the failure the destructor of the model reports in one
\* step.
C26_BoundedReport ==
    leakReport.pc = "done"
    => LET map == leakReport.map
           str == leakReport.str
           n == Cardinality(DOMAIN map)
           m == Min(n, 15)
       IN  /\ n > 0
           /\ str[1] = Remaining(n)
           /\ \A i \in 1..m : str[i + 1] = RealMock(i, map[i])
           /\ Len(str) = 1 + m + (IF n > 15 THEN 1 ELSE 0)
           /\ n > 15 <=> str[Len(str)] = More
           /\ reported = <<Failure("leak", "A", n)>>

\* A report for sixteen leaked identities: fifteen pairs and the marker.
C26_Witness ==
    /\ leakReport.pc = "done"
    /\ DOMAIN leakReport.map = 1..16
    /\ Len(SelectSeq(leakReport.str, IsPair)) = 15
    /\ leakReport.str[17] = More
    /\ reported[1].remaining = 16

----------------------------------------------------------------------------
(* Claims C27, C30 on revision 1                                             *)

\* C27: move is not routed through Base Links.  move(to, from) on a registry
\* leaves the Identity Map of every other registry, and every Vend Queue, as
\* it was.
C27_MoveLocal ==
    [][\A T \in Types, to \in Ids, from \in Ids :
        MoveStep(T, to, from)
        => /\ \A X \in Registries \ {T} : sMockMap'[X] = sMockMap[X]
           /\ mMockList' = mMockList]_vars

\* An object of B has been moved: the registry of B holds its double under
\* the new address and not under the old one, the registry of A holds its
\* entry under the old address and none under the new one.
C27_Witness ==
    \E to \in Ids, from \in Ids :
        /\ to # from
        /\ calls = <<Direct("move", "B", to, from)>>
        /\ to \in DOMAIN sMockMap["B"] /\ sMockMap["B"][to] # Null
        /\ from \notin DOMAIN sMockMap["B"]
        /\ from \in DOMAIN sMockMap["A"]
        /\ to \notin DOMAIN sMockMap["A"]

\* The entries of every identity other than id are the same before and
\* after the step, in every registry.
OthersKept(id) ==
    \A X \in Registries, other \in Ids \ {id} :
        /\ other \in DOMAIN sMockMap'[X] <=> other \in DOMAIN sMockMap[X]
        /\ other \in DOMAIN sMockMap[X] => sMockMap'[X][other] = sMockMap[X][other]

\* C30: operations keyed by one identity do not disturb others.  vend(id),
\* with the restores it makes in the linked registries, and destroy(id)
\* leave the binding of every other identity as it was, in every registry.
C30_OthersKept ==
    [][\A T \in Types, id \in Ids :
        VendStep(T, id) \/ DestroyStep(T, id) => OthersKept(id)]_vars

\* vend has restored a queued double of A for the second object while the
\* first object, a B, keeps its bindings in the registries of A and B.
C30_Witness ==
    /\ chain = << >>
    /\ objs[1] = "B" /\ objs[2] = "B"
    /\ 1 \in DOMAIN sMockMap["A"] /\ 1 \in DOMAIN sMockMap["B"]
    /\ 2 \in DOMAIN sMockMap["A"] /\ 2 \in DOMAIN sMockMap["B"]
    /\ sMockMap["A"][2] = sMockMap["B"][2]
    /\ sMockMap["A"][1] # sMockMap["A"][2]
    /\ sInstance["A"] # 0
    /\ \E n \in 1..MaxMocks : mMockList["A"][sInstance["A"]] = <<Mock("A", n)>>

----------------------------------------------------------------------------
(* Claim C29 on revision 3                                                   *)

\* No operation but the teardown of a scope reports a failure.
QuietOperations == [][scopes' = scopes => reported' = << >>]_vars

\* C29: failures are reported only at scope teardown and never abort.  A
\* step that is not the teardown of a scope reports no failure, a teardown
\* completes (the scope is gone afterwards), and once the last scope of a
\* type is gone a vend on the type binds a default double.
C29_OnlyAtTeardown ==
    [][/\ scopes' = scopes => reported' = << >>
       /\ \A T \in Types : TeardownStep(T) => \E k \in scopes[T] : scopes'[T] = scopes[T] \ {k}
       /\ \A T \in Types, id \in Ids :
             (VendStep(T, id) /\ scopes[T] = {} /\ sInstanceCount[T] = 0)
             => IsDefaultDouble(sMockMap'[T][id])]_vars

----------------------------------------------------------------------------
(* Revision 1, vend and destroy of two threads, lock by lock                 *)

\* std::scoped_lock<std::recursive_mutex> lock(gMockVendorMutex) by thread t:
\* possible when no other thread owns the mutex; the owner locks it once more.
CanLock(t) == gMockVendorMutex \in {0, t}

Lock(t) ==
    /\ CanLock(t)
    /\ gMockVendorMutex' = t
    /\ lockCount' = lockCount + 1

\* A variant of unlockedOwner that drops the ownership at the first unlock.
unlockedOwner_first(t, count) == 0

\* The owner after an unlock by thread t that held the mutex count times.
unlockedOwner(t, count) == IF count = 1 THEN 0 ELSE t

\* The destructor of the scoped_lock at the return of a function.
Unlock(t) ==
    /\ gMockVendorMutex' = unlockedOwner(t, lockCount)
    /\ lockCount' = lockCount - 1

At(t, at) == [thr[t] EXCEPT !.at = at]

\* The base registry the loop of vend is at, NoClass after the last link.
LinkAt(t) ==
    LET links == IF thr[t].type \in Registries THEN sBaseLinks[thr[t].type] ELSE << >>
    IN  IF frame[t].link \in DOMAIN links THEN links[frame[t].link] ELSE NoClass

lockFrame ==
    UNCHANGED <<objs, chain, nextMock, scopes, sInstance, mStaticMock, sBaseLinks,
                qlog, vlog, made, newed, calls, leakReport, linkHeap, reported,
                rev2Vars, rev3Vars, monVars>>

\* A thread calls vend(ths) or destroy(ths) on registry T and arrives at the
\* scoped_lock.
Call1L(t, o, T, id) ==
    /\ thr[t].at = "idle"
    /\ thr[t].n < MaxOps
    /\ thr' = [thr EXCEPT ![t] = [at |-> "waiting", op |-> o, type |-> T,
                                  to |-> id, from |-> id, n |-> @.n]]
    /\ UNCHANGED <<sMockMap, mMockList, sLastMockWasPopped, gMockVendorMutex, lockCount, frame>>
    /\ lockFrame

\* The scoped_lock of vend or destroy is taken.
Acquire1L(t) ==
    /\ thr[t].at = "waiting"
    /\ Lock(t)
    /\ thr' = [thr EXCEPT ![t] = At(t, "body")]
    /\ UNCHANGED <<sMockMap, mMockList, sLastMockWasPopped, frame>>
    /\ lockFrame

\* vend, up to the loop over sBaseLinks: the queued double or a new one.
VendBody1L(t) ==
    LET r == thr[t]
        k == sInstance[r.type]
        pop == k # 0 /\ mMockList[r.type][k] # << >>
        m == IF pop THEN Head(mMockList[r.type][k]) ELSE NiceMock(r.type, r.to)
    IN  /\ r.at = "body"
        /\ r.op = "vend"
        /\ sMockMap' = [sMockMap EXCEPT ![r.type] = Put(@, r.to, m)]
        /\ mMockList' = IF pop THEN [mMockList EXCEPT ![r.type][k] = Tail(@)] ELSE mMockList
        /\ sLastMockWasPopped' = IF pop THEN [sLastMockWasPopped EXCEPT ![r.type] = TRUE]
                                 ELSE sLastMockWasPopped
        /\ thr' = [thr EXCEPT ![t] = At(t, "links")]
        /\ frame' = [frame EXCEPT ![t] = [link |-> 1, popped |-> Null]]
        /\ UNCHANGED <<gMockVendorMutex, lockCount>>
        /\ lockFrame

\* destroy, up to its return.
DestroyBody1L(t) ==
    LET r == thr[t]
    IN  /\ r.at = "body"
        /\ r.op = "destroy"
        /\ sMockMap' = destroyData1(State1, r.type, r.to).map
        /\ thr' = [thr EXCEPT ![t] = At(t, "return")]
        /\ UNCHANGED <<mMockList, sLastMockWasPopped, gMockVendorMutex, lockCount, frame>>
        /\ lockFrame

\* The scoped_lock of a function vend calls for the link it is at:
\* _wasLastMockPopped, then mock and _restoreMock of the base registry.
Enter1L(t) ==
    /\ LinkAt(t) # NoClass
    /\ \/ thr[t].at = "links" /\ thr' = [thr EXCEPT ![t] = At(t, "wasPopped")]
       \/ thr[t].at = "popped" /\ thr' = [thr EXCEPT ![t] = At(t, "mock")]
       \/ thr[t].at = "gotMock" /\ thr' = [thr EXCEPT ![t] = At(t, "restore")]
    /\ Lock(t)
    /\ UNCHANGED <<sMockMap, mMockList, sLastMockWasPopped, frame>>
    /\ lockFrame

\* _wasLastMockPopped() of the base registry returns: on false the loop goes
\* to the next link.
WasPopped1L(t) ==
    /\ thr[t].at = "wasPopped"
    /\ Unlock(t)
    /\ IF sLastMockWasPopped[LinkAt(t)]
       THEN /\ thr' = [thr EXCEPT ![t] = At(t, "popped")]
            /\ frame' = frame
       ELSE /\ thr' = [thr EXCEPT ![t] = At(t, "links")]
            /\ frame' = [frame EXCEPT ![t].link = @ + 1]
    /\ UNCHANGED <<sMockMap, mMockList, sLastMockWasPopped>>
    /\ lockFrame

\* mock(ths) of the base registry returns poppedMock.
Mock1L(t) ==
    LET X == LinkAt(t)
        map == mock1(sMockMap[X], thr[t].to)
    IN  /\ thr[t].at = "mock"
        /\ Unlock(t)
        /\ sMockMap' = [sMockMap EXCEPT ![X] = map]
        /\ frame' = [frame EXCEPT ![t].popped = map[thr[t].to]]
        /\ thr' = [thr EXCEPT ![t] = At(t, "gotMock")]
        /\ UNCHANGED <<mMockList, sLastMockWasPopped>>
        /\ lockFrame

\* _restoreMock(ths, poppedMock, sMockMap[ths]) of the base registry returns,
\* and the loop goes to the next link.
Restore1L(t) ==
    LET r == thr[t]
        st == restoreMock1(State1, LinkAt(t), r.to, frame[t].popped, sMockMap[r.type][r.to])
    IN  /\ r.at = "restore"
        /\ Unlock(t)
        /\ sMockMap' = st.map
        /\ mMockList' = st.list
        /\ sLastMockWasPopped' = st.popped
        /\ frame' = [frame EXCEPT ![t] = [link |-> @.link + 1, popped |-> Null]]
        /\ thr' = [thr EXCEPT ![t] = At(t, "links")]
        /\ lockFrame

\* vend after its last link, or destroy, returns: the scoped_lock taken at
\* the entry is released.
Return1L(t) ==
    /\ \/ thr[t].at = "links" /\ LinkAt(t) = NoClass
       \/ thr[t].at = "return"
    /\ Unlock(t)
    /\ thr' = [thr EXCEPT ![t] = Idle(@.n + 1)]
    /\ frame' = [frame EXCEPT ![t] = NoFrame]
    /\ UNCHANGED <<sMockMap, mMockList, sLastMockWasPopped>>
    /\ lockFrame

\* What a thread does once it has called vend or destroy.
ThreadStep1L(t) ==
    \/ Acquire1L(t)
    \/ VendBody1L(t)
    \/ DestroyBody1L(t)
    \/ Enter1L(t)
    \/ WasPopped1L(t)
    \/ Mock1L(t)
    \/ Restore1L(t)
    \/ Return1L(t)

\* The test declares its vendors and queues its doubles before it starts
\* the threads.
NotStarted == \A t \in Threads : thr[t] = Idle(0)

Next1L ==
    \/ NotStarted /\ \E T \in Types : NewVendor1(T)
    \/ NotStarted /\ \E T \in Types, k \in Slots : QueueMock1(T, k)
    \/ \E t \in Threads, o \in {"vend", "destroy"}, T \in Types, id \in Ids : Call1L(t, o, T, id)
    \/ \E t \in Threads : ThreadStep1L(t)

\* A thread that is inside vend or destroy, or can take the lock, runs on.
Spec1L == Init /\ [][Next1L]_vars /\ \A t \in Threads : WF_vars(ThreadStep1L(t))

\* Thread t is inside vend or destroy with the mutex taken.
Inside(t) == thr[t].at \notin {"idle", "waiting"}

\* C28: propagation terminates without deadlock.  A thread that waits for
\* the mutex at the entry of vend or destroy gets it, and a thread that has
\* called vend or destroy returns from it; the thread inside holds the mutex,
\* once and once more inside each function vend calls for a link, and at the
\* return of vend or destroy the mutex is free.
C28_LockProgress ==
    /\ \A t \in Threads : (thr[t].at = "waiting") ~> (gMockVendorMutex = t)
    /\ \A t \in Threads : (thr[t].at # "idle") ~> (thr[t].at = "idle")
    /\ [](\A t \in Threads :
            /\ Inside(t) => gMockVendorMutex = t
            /\ Inside(t) => lockCount = (IF thr[t].at \in {"wasPopped", "mock", "restore"}
                                         THEN 2 ELSE 1)
            /\ ~Inside(t) => gMockVendorMutex # t)
    /\ []((\A t \in Threads : ~Inside(t)) => gMockVendorMutex = 0 /\ lockCount = 0)

\* A thread is inside _wasLastMockPopped of a base registry, the mutex
\* locked twice, while another thread waits at the entry of its operation.
C28_Witness ==
    \E t \in Threads, u \in Threads :
        /\ thr[t].at = "wasPopped"
        /\ lockCount = 2
        /\ gMockVendorMutex = t
        /\ thr[u].at = "waiting"

----------------------------------------------------------------------------
(* Claims C31..C35                                                           *)

\* The constructor of class T has called vend(id) for the object at id and
\* the destructor of T has not yet called destroy(id).
VendedNotDestroyed(T, id) ==
    \/ /\ objs[id] # NoClass
       /\ T \in Range(CtorChain(objs[id]))
       /\ Op("vend", T, id) \notin Range(chain)
    \/ Op("destroy", T, id) \in Range(chain)

\* C31: a live object always has a double.  For every identity vended on a
\* type by the type's constructor and not yet destroyed, mock(id) on the
\* registry of the type (the types of the base classes are such types, their
\* constructors having run first) returns a double that is not null.
C31_LiveHasDouble ==
    \A T \in Types, id \in Ids :
        VendedNotDestroyed(T, id) => mock3(sMockMap[T], id)[id] # Null

\* The registry of T holds a double for id.
HasDouble(T, id) == id \in DOMAIN sMockMap[T] /\ sMockMap[T][id] # Null

\* C31 as amended: vend(id) on a type binds a double that is not null (the
\* doubles the test queues being not null), and the identity keeps a double
\* in the registry of the type until the type's destructor calls destroy(id),
\* through every step but the teardown that brings the type's instance
\* count to zero, which empties the map under the objects still alive.
C31_DoubleKept ==
    [][\A T \in Types, id \in Ids :
        /\ VendStep(T, id) => HasDouble(T, id)'
        /\ (HasDouble(T, id) /\ VendedNotDestroyed(T, id)
              /\ VendedNotDestroyed(T, id)' /\ ~LastTeardown3(T))
           => /\ HasDouble(T, id)'
              /\ mock3(sMockMap'[T], id)[id] # Null]_vars

\* An object of B outlives a teardown that audits nothing, a second scope
\* of B being still live, and mock(id) has been called for it on the registry of
\* A: the registries of A and of B hold a double for it.
C31_Witness ==
    \E id \in Ids :
        /\ chain = << >>
        /\ objs[id] = "B"
        /\ calls = <<Direct("mock", "A", id, id)>>
        /\ HasDouble("A", id)
        /\ HasDouble("B", id)
        /\ newed = 2
        /\ Cardinality(scopes["B"]) = 1

\* The live scopes counted for the MockVendorData X: those of X's own vendor
\* type and those of the vendor types that list X's vendor as a base.
CountedScopes(X) ==
    {p \in Types \X Slots :
        /\ p[2] \in scopes[p[1]]
        /\ p[1] = X \/ X \in Range(BaseMockVendors(p[1]))}

InstanceCountInv ==
    \A X \in Types :
        /\ sInstanceCount[X] = Cardinality(CountedScopes(X))
        /\ sInstanceCount[X] >= 0

\* C32: instance counter invariant.  The counter of a type is the number of
\* live scopes of the type plus the number of live scopes of the vendor
\* types that list it as a base, and is never below zero; a failure is
\* reported for a type only in a step that takes its counter from one to
\* zero, and a step that does so with something left in the type's queue or
\* map reports it.
C32_InstanceCount ==
    [][/\ InstanceCountInv
       /\ InstanceCountInv'
       /\ \A X \in Types :
             /\ (\E i \in DOMAIN reported' : reported'[i].type = X)
                => sInstanceCount[X] = 1 /\ sInstanceCount'[X] = 0
             /\ (sInstanceCount[X] = 1 /\ sInstanceCount'[X] = 0
                  /\ (sMockList[X] # << >> \/ DOMAIN sMockMap[X] # {}))
                => \E i \in DOMAIN reported' : reported'[i].type = X]_vars

\* A scope of B has ended while a scope of A lives on: the counter of A has
\* gone from two to one, nothing was audited for A, and the double queued on
\* the scope of B is still in the queue of A.
C32_Witness ==
    /\ scopes["A"] # {}
    /\ scopes["B"] = {}
    /\ newed = 2
    /\ sInstanceCount["A"] = 1
    /\ sInstanceCount["B"] = 0
    /\ sMockList["A"] # << >>
    /\ \E i \in DOMAIN reported : reported[i].type = "B"
    /\ \A i \in DOMAIN reported : reported[i].type # "A"

\* The step constructs a scope.
NewScopeStep == \E T \in Types : scopes[T] # scopes'[T] /\ scopes[T] \subseteq scopes'[T]

\* C33: a scope's leak report covers the whole process-wide Identity Map of
\* its type.  The leak failure of the teardown that brings a type's counter
\* to zero states the number of entries the type's map holds, whoever made
\* them and when: a vend binds the identity in the map with or without a
\* scope held, by the constructor of the type also when the object is of a
\* derived class, and the construction of a scope leaves the maps as they
\* are.
C33_LeakCoversMap ==
    [][\A X \in Types :
        /\ (LastTeardown3(X) /\ DOMAIN sMockMap[X] # {})
           => \E i \in DOMAIN reported' :
                 /\ reported'[i].kind = "leak"
                 /\ reported'[i].type = X
                 /\ reported'[i].remaining = Cardinality(DOMAIN sMockMap[X])
        /\ NewScopeStep => sMockMap' = sMockMap
        /\ \A id \in Ids :
              VendStep(X, id)
              => /\ DOMAIN sMockMap'[X] = DOMAIN sMockMap[X] \cup {id}
                 /\ \A Y \in Types \ {X} : sMockMap'[Y] = sMockMap[Y]]_vars

\* The one scope of the run, of A, has ended with an object of A and an
\* object of B alive: the leak failure for A counts both.  (The state is the
\* same whether the objects were constructed before the scope or in it.)
C33_Witness ==
    /\ newed = 1
    /\ \A T \in Types : scopes[T] = {}
    /\ \E a \in Ids, b \in Ids : objs[a] = "A" /\ objs[b] = "B"
    /\ chain = << >>
    /\ \E i \in DOMAIN reported :
          /\ reported[i].kind = "leak"
          /\ reported[i].type = "A"
          /\ reported[i].remaining = 2
    /\ DOMAIN sMockMap["A"] = {}
    /\ DOMAIN sMockMap["B"] # {}

\* The test calls vend(id) on the registry of T, which holds an entry for id.
DoubleVendStep(T, id) ==
    /\ calls' = Append(calls, Direct("vend", T, id, id))
    /\ id \in DOMAIN sMockMap[T]

\* C34: double-vending overwrites silently.  vend(id) on a registry that
\* holds an entry for id binds id to the front of the queue, which is taken
\* off the queue, or to a default double when the queue is empty; the map has
\* the entries it had, one for id; nothing is reported; and the teardown that
\* audits the type counts the entries of the map, the displaced double
\* being in none.
C34_DoubleVend ==
    [][\A T \in Types, id \in Ids :
        /\ DoubleVendStep(T, id)
           => /\ DOMAIN sMockMap'[T] = DOMAIN sMockMap[T]
              /\ \A other \in DOMAIN sMockMap[T] \ {id} :
                    sMockMap'[T][other] = sMockMap[T][other]
              /\ IF sMockList[T] # << >>
                 THEN /\ sMockMap'[T][id] = Head(sMockList[T])
                      /\ sMockList'[T] = Tail(sMockList[T])
                 ELSE /\ IsDefaultDouble(sMockMap'[T][id])
                      /\ sMockList'[T] = << >>
              /\ reported' = << >>
        /\ LastTeardown3(T)
           => /\ Cardinality(Failures("leak", T)') <= 1
              /\ \A i \in Failures("leak", T)' :
                    reported'[i].remaining = Cardinality(DOMAIN sMockMap[T])
              /\ Cardinality(Failures("unconsumed", T)') =
                    (IF sMockList[T] # << >> THEN 1 ELSE 0)]_vars

\* Two doubles were queued on the one scope of the run, one object of A was
\* constructed and vend was called once more for its address; the scope has
\* ended with the object alive and has reported one leaked identity and
\* nothing else, both doubles having been taken.
C34_Witness ==
    \E id \in Ids :
        /\ objs[id] = "A"
        /\ calls = <<Direct("vend", "A", id, id)>>
        /\ made = 1
        /\ newed = 1
        /\ nextMock = 2
        /\ \A T \in Types : scopes[T] = {}
        /\ Len(reported) = 1
        /\ reported[1] = Failure("leak", "A", 1)

----------------------------------------------------------------------------
(* Revision 1: the list of Base Links.  Every vendor has a pointer          *)
(* sBaseLinks to the BaseLink object registered last, and every BaseLink    *)
(* object a pointer mNext to the one registered before it.  linkHeap holds  *)
(* these pointers and the class of the object that lives at each address;   *)
(* the variable sBaseLinks holds what the loop of vend visits.              *)

\* The classes Vendor::BaseLink<BaseMock, Base> the mock headers declare
\* objects of.
LinkClasses ==
    UNION {{[vendor |-> D, base |-> DeclaredLinks(D)[i]] : i \in DOMAIN DeclaredLinks(D)}
           : D \in Types}

\* MockVendor::_addBaseLink(newLink, next), next being the mNext of newLink:
\* next = sBaseLinks; sBaseLinks = newLink.
addBaseLink(heap, D, n) ==
    [heap EXCEPT !.mNext[n] = heap.sBaseLinks[D], !.sBaseLinks[D] = n]

\* The nodes the loop of vend visits from pointer p, k iterations of it at
\* most: for (linkPtr = sBaseLinks; linkPtr != nullptr; linkPtr = getNext()).
RECURSIVE linkWalk(_, _, _)
linkWalk(heap, p, k) ==
    IF p = Null \/ k = 0 THEN << >>
    ELSE <<p>> \o linkWalk(heap, heap.mNext[p], k - 1)

\* The walk over the list of vendor D, cut after one iteration more than
\* there are nodes: a walk of that length has met a node twice and never ends.
Visited(heap, D) == linkWalk(heap, heap.sBaseLinks[D], MaxLinks + 1)

\* The walk of every vendor ends and meets live BaseLink objects of the
\* vendor only: vend and destroy have defined behaviour and return.  (A walk
\* that meets the address of a destroyed object reads freed storage, and one
\* that meets a node twice never ends.)
Sound(heap) ==
    \A D \in Types :
        /\ Len(Visited(heap, D)) <= MaxLinks
        /\ \A i \in DOMAIN Visited(heap, D) : heap.live[Visited(heap, D)[i]].vendor = D

\* The base registries the loop of vend calls, in order.
LinkedBases(heap, D) ==
    [i \in DOMAIN Visited(heap, D) |-> heap.live[Visited(heap, D)[i]].base]

\* BaseLinkBase::BaseLinkBase() of an object of class c constructed at the
\* free address n (a global, or a local of a function of the test): mNext is
\* initialised to nullptr and the object registers itself.
DeclareLink(c, n) ==
    LET heap == addBaseLink([linkHeap EXCEPT !.live[n] = c, !.mNext[n] = Null],
                            c.vendor, n)
    IN  /\ chain = << >>
        /\ linkHeap.live[n] = NoLinkClass
        /\ linkHeap' = heap
        /\ sBaseLinks' = IF Sound(heap)
                         THEN [T \in Registries |->
                                 IF T \in Types THEN LinkedBases(heap, T) ELSE sBaseLinks[T]]
                         ELSE sBaseLinks
        /\ reported' = << >>
        /\ UNCHANGED <<objs, chain, nextMock, scopes, sMockMap, sInstance, mMockList,
                       mStaticMock, qlog, vlog, made, newed, calls>>
        /\ UNCHANGED <<thrVars, lockCount, frame, leakReport, rev1Vars, rev2Vars,
                       rev3Vars, monVars>>

\* BaseLinkBase::~BaseLinkBase() = default: the object at address n ends its
\* life and no pointer is changed, the pointers to it included.
DestroyLink(n) ==
    /\ chain = << >>
    /\ linkHeap.live[n] # NoLinkClass
    /\ linkHeap' = [linkHeap EXCEPT !.live[n] = NoLinkClass]
    /\ reported' = << >>
    /\ UNCHANGED <<objs, chain, nextMock, scopes, sMockMap, sInstance, mMockList,
                   mStaticMock, sBaseLinks, qlog, vlog, made, newed, calls>>
    /\ UNCHANGED <<thrVars, lockCount, frame, leakReport, rev1Vars, rev2Vars,
                   rev3Vars, monVars>>

\* The operations of revision 1 between the declarations of links, where
\* the loops of vend and destroy end: scopes of the vendor of ObjB, and
\* objects of ObjB at the first address.
Next1B ==
    \/ \E c \in LinkClasses, n \in LinkNodes : DeclareLink(c, n)
    \/ \E n \in LinkNodes : DestroyLink(n)
    \/ Sound(linkHeap) /\ NewVendor1("B")
    \/ \E k \in Slots : Sound(linkHeap) /\ DeleteVendor1("B", k)
    \/ Sound(linkHeap) /\ Construct1("B", 1)
    \/ Sound(linkHeap) /\ Delete1(1)
    \/ Sound(linkHeap) /\ Chain1

\* The program before static initialisation: no BaseLink object has been
\* constructed.
Init1B == InitWith([T \in Registries |-> << >>])

Spec1B == Init1B /\ [][Next1B]_vars

\* Node n is met by the walk over the list of vendor D.
InList(heap, D, n) == \E i \in DOMAIN Visited(heap, D) : Visited(heap, D)[i] = n

\* How many times the walk over the list of vendor D meets node n.
TimesVisited(heap, D, n) ==
    Cardinality({i \in DOMAIN Visited(heap, D) : Visited(heap, D)[i] = n})

\* The walk s is the end of the walk t: t is s with nodes put in front.
IsSuffix(s, t) ==
    /\ Len(s) <= Len(t)
    /\ \A i \in DOMAIN s : s[i] = t[i + Len(t) - Len(s)]

\* A BaseLink object of vendor D is constructed at address n, which the list
\* of D holds already: the node is registered for the second time.
RegisteredAgain(D, n) ==
    /\ linkHeap.live[n] = NoLinkClass
    /\ linkHeap'.live[n].vendor = D
    /\ InList(linkHeap, D, n)

\* C35: Base Links are permanent and deduplicated.  In every step a node that
\* the list of a vendor holds is held by it afterwards, the nodes the list
\* held keep their order behind the nodes put in front of them (no vend,
\* destroy, scope construction or teardown changes the list at all), and a
\* node that is registered for the second time occurs once in the list.
C35_PermanentDeduplicated ==
    [][\A D \in Types :
        /\ \A n \in LinkNodes : InList(linkHeap, D, n) => InList(linkHeap', D, n)
        /\ IsSuffix(Visited(linkHeap, D), Visited(linkHeap', D))
        /\ (newed' # newed \/ scopes' # scopes \/ objs' # objs \/ sMockMap' # sMockMap)
              => linkHeap' = linkHeap
        /\ \A n \in LinkNodes :
              RegisteredAgain(D, n) => TimesVisited(linkHeap', D, n) = 1]_vars

============================================================================
